---- MODULE Spec2Model ----
(***************************************************************************)
(* Model of the accessibility scan pipeline of web-app/lib:                *)
(*   scanner.ts        mergeViolations, form-accessibility heuristic,      *)
(*                     scanWebsite, scanMultiplePages                      *)
(*   ai-prioritizer.ts analyzeViolationsWithAI and its helpers             *)
(*   code-fix-generator.ts generateCodeFixes and its helpers               *)
(* Strings of the program are TLA+ strings; Len, SubSeq and \o act on them *)
(* character by character.                                                 *)
(***************************************************************************)
EXTENDS Integers, Sequences, FiniteSets, TLC

VARIABLES
    axeViolations,      \* mergeViolations: first argument
    customViolations,   \* mergeViolations: second argument
    mergedViolations,   \* mergeViolations: returned array
    mergePc,            \* "ready" before the call, "done" after it
    analysis,           \* parseAIResponse: one element of the parsed array
    parsed,             \* parseAIResponse: what the map callback made of it
    parsePc,            \* "ready" before the callback runs, "done" after it
    apiKey,             \* process.env.ANTHROPIC_API_KEY is set
    violations,         \* analyzeViolationsWithAI: the violations to score
    scorePc,            \* "start", "awaiting" (request in flight), "returned", "threw"
    scorePath,          \* which return statement produced analyses
    reply,              \* what the reasoning service answered
    analyses,           \* analyzeViolationsWithAI: the returned array
    scoreRequests,      \* calls of anthropic.messages.create made by the scoring
    fixViolations,      \* generateCodeFixes: the violations to fix
    fixContext,         \* generateCodeFixes: the scan context
    fixPc,              \* "start", "loop", "awaiting", "returned", "threw"
    batchStart,         \* generateAICodeFixes: the loop index i, counted from 0
    batchFramework,     \* generateBatchFixes: framework of the batch in flight
    allFixes,           \* the fixes gathered so far, at the end the returned array
    fixRequests,        \* calls of anthropic.messages.create made by the fix generator
    page,               \* the forms of the scanned document
    formPc,             \* "loaded", "checked" (heuristic ran), "handed" (findings given to scoring)
    scanOptions,        \* scanWebsite: includePerformance, customRules, framework
    scanPc,             \* scanWebsite: the await it stands at, "returned" or "threw"
    scanPending,        \* scanWebsite: how the try block was left, while finally runs
    scanBrowsers,       \* browsers launched by scanWebsite and not yet closed
    customChecks,       \* runCustomAccessibilityChecks: the arrays of the checks evaluated so far
    scanFailure,        \* the step of scanWebsite that failed, "none" if none did
    performanceMetrics, \* scanWebsite: the local of that name
    scanResult,         \* scanWebsite: the returned ScanResult
    maxPages,           \* scanMultiplePages: options.maxPages
    anchors,            \* href of each a[href] of the seed document, in document order
    crawlPc,            \* scanMultiplePages: the await it stands at, "returned" or "threw"
    crawlPending,       \* scanMultiplePages: how the try block was left, while finally runs
    crawlFailure,       \* the step of the link discovery that failed, "none" if none did
    links,              \* scanMultiplePages: the local of that name
    crawlBrowser,       \* the browser of the link discovery: "none", "open", "closed"
    urls,               \* scanMultiplePages: the local of that name
    urlIndex,           \* the for-of loop: elements of urls already taken
    scanOk,             \* for each url taken, whether scanWebsite resolved
    results,            \* scanMultiplePages: the local of that name
    headings,           \* level of each h1..h6 of the document, in document order
    headingIssues,      \* the findings of the heading check
    headingPc,          \* "idle", "loaded" or "checked"
    request,            \* POST: the parsed body of the request
    routePc,            \* POST: the await it stands at, or "responded"
    routeOptions,       \* POST: the local scanOptions
    detectPc,           \* detectFramework: the await it stands at, "returned" or "threw"
    detectPending,      \* detectFramework: how the try block was left, while finally runs
    detectBrowser,      \* the browser of detectFramework: "none", "open", "closed"
    detected,           \* what detectFramework returned, "" before
    pageViolations,     \* the violations of each ScanResult the scan returned
    routeViolations,    \* POST: scanResult.violations
    aiCalls,            \* calls of analyzeViolationsWithAI made by the route
    aiAnalysis,         \* POST: the local of that name, "null" or "array"
    response            \* POST: the body and status of the response

parseVars == <<analysis, parsed, parsePc>>

fixVars == <<fixViolations, fixContext, fixPc, batchStart, batchFramework,
             allFixes, fixRequests>>

scoreVars == <<apiKey, violations, scorePc, scorePath, reply, analyses, scoreRequests>>

mergeVars == <<axeViolations, customViolations, mergedViolations, mergePc>>

formVars == <<page, formPc>>

scanVars == <<scanOptions, scanPc, scanPending, scanBrowsers, customChecks,
              scanFailure, performanceMetrics, scanResult>>

crawlVars == <<maxPages, anchors, crawlPc, crawlPending, crawlFailure, links, crawlBrowser,
               urls, urlIndex, scanOk, results>>

headingVars == <<headings, headingIssues, headingPc>>

routeVars == <<request, routePc, routeOptions, detectPc, detectPending, detectBrowser,
               detected, pageViolations, routeViolations, aiCalls, aiAnalysis, response>>

vars == <<mergeVars, parseVars, scoreVars, fixVars, formVars, scanVars, crawlVars,
          headingVars, routeVars>>

-----------------------------------------------------------------------------
(* Bounds *)

MaxMergeLen == 3

\* the integers a reasoning-service response may carry as a score reach
\* this far below 0 and this far above 10
RawBelow == 1

RawAbove == 1

MaxViolations == 2

MaxReplyLen == 3

MaxFixViolations == 4

MaxFixReplyLen == 4

MaxInputs == 2

\* findings of one check, and violations of axe-core, in one page scan
MaxScanFindings == 1

\* anchors of the seed document
MaxAnchors == 3

\* violations of a call that exercises the templates
MaxTemplateViolations == 1

\* the largest options.maxPages of a crawl
MaxPages == 3

-----------------------------------------------------------------------------
(* Values *)

\* a property that an object does not carry (JavaScript undefined)
Undefined == "undefined"

Impacts == {"critical", "serious", "moderate", "minor"}

\* an impact outside the four levels, as axe-core reports for some rules
UnrecognizedImpact == "none"

DescFormLabel == "Form input missing associated label or aria-label"

DescSkipNav == "Missing skip navigation link for screen readers"

MergeDescriptions == {DescFormLabel, DescSkipNav}

MergeReferences == {"WCAG 3.3.2", Undefined}

MergeUniverse ==
    [description : MergeDescriptions,
     wcagReference : MergeReferences,
     impact : Impacts \cup {UnrecognizedImpact}]

SeqsUpTo(S, n) == UNION {[1..k -> S] : k \in 0..n}

\* the i-th element of a source gets an id that names the source and the place
WithIds(source, s) ==
    [i \in 1..Len(s) |->
        [id |-> <<source, i>>,
         description |-> s[i].description,
         wcagReference |-> s[i].wcagReference,
         impact |-> s[i].impact]]

-----------------------------------------------------------------------------
(* scanner.ts: mergeViolations *)

SameFinding(v, w) ==
    v.description = w.description /\ v.wcagReference = w.wcagReference

\* self.findIndex(...): the least index whose element matches violation
FindIndex(self, violation) ==
    CHOOSE i \in 1..Len(self) :
        /\ SameFinding(self[i], violation)
        /\ \A j \in 1..(i - 1) : ~SameFinding(self[j], violation)

RECURSIVE FilterIdx(_, _)
FilterIdx(self, k) ==
    IF k > Len(self) THEN <<>>
    ELSE IF k = FindIndex(self, self[k])
         THEN <<self[k]>> \o FilterIdx(self, k + 1)
         ELSE FilterIdx(self, k + 1)

UniqueKeepLast(all) ==
    LET lastOf(k) == \A j \in (k + 1)..Len(all) : ~SameFinding(all[j], all[k])
        F[k \in 1..(Len(all) + 1)] ==
            IF k > Len(all) THEN <<>>
            ELSE IF lastOf(k) THEN <<all[k]>> \o F[k + 1] ELSE F[k + 1]
    IN  F[1]

uniqueViolations(allViolations) == FilterIdx(allViolations, 1)

\* impactOrder[a.impact] || 99 : an impact that is no key of the table, and
\* the rank 0 of critical, are falsy and become 99
impactOrder(impact) ==
    LET known == impact \in {"critical", "serious", "moderate", "minor"}
        looked == CASE impact = "critical" -> 0
                    [] impact = "serious" -> 1
                    [] impact = "moderate" -> 2
                    [] impact = "minor" -> 3
                    [] OTHER -> 0
    IN  IF ~known \/ looked = 0 THEN 99 ELSE looked

\* the comparator handed to sort
CompareImpact(a, b) == impactOrder(a.impact) - impactOrder(b.impact)

\* Array.prototype.sort is stable: an element goes behind every element that
\* does not compare greater than it
RECURSIVE InsertByImpact(_, _)
InsertByImpact(sorted, v) ==
    IF sorted = <<>> THEN <<v>>
    ELSE IF CompareImpact(sorted[Len(sorted)], v) > 0
         THEN InsertByImpact(SubSeq(sorted, 1, Len(sorted) - 1), v)
                  \o <<sorted[Len(sorted)]>>
         ELSE sorted \o <<v>>

RECURSIVE SortByImpact(_, _)
SortByImpact(s, acc) ==
    IF s = <<>> THEN acc
    ELSE SortByImpact(Tail(s), InsertByImpact(acc, Head(s)))

mergeViolations(axe, custom) ==
    SortByImpact(uniqueViolations(axe \o custom), <<>>)

-----------------------------------------------------------------------------
(* IEEE 754 double arithmetic, as far as calculatePriorityScore uses it.    *)
(* A magnitude is <<hi, mid, lo>>, the natural hi*2^48 + mid*2^24 + lo in   *)
(* units of 2^-56; every double met here is a whole number of such units.   *)
(* A double is a sign and a magnitude rounded to 53 significant bits, to    *)
(* nearest and to even on a tie.                                            *)

Limb == 16777216

RECURSIVE Pow2(_)
Pow2(n) == IF n = 0 THEN 1 ELSE 2 * Pow2(n - 1)

RECURSIVE BitLen(_)
BitLen(n) == IF n = 0 THEN 0 ELSE 1 + BitLen(n \div 2)

Carry(h, m, l) ==
    LET m1 == m + (l \div Limb)
    IN  <<h + (m1 \div Limb), m1 % Limb, l % Limb>>

MagZero == <<0, 0, 0>>

MagAdd(x, y) == Carry(x[1] + y[1], x[2] + y[2], x[3] + y[3])

MagTimes(x, k) == Carry(x[1] * k, x[2] * k, x[3] * k)

MagLess(x, y) ==
    \/ x[1] < y[1]
    \/ x[1] = y[1] /\ x[2] < y[2]
    \/ x[1] = y[1] /\ x[2] = y[2] /\ x[3] < y[3]

\* x - y for y not above x
MagSub(x, y) ==
    LET bl == IF x[3] < y[3] THEN 1 ELSE 0
        l == x[3] - y[3] + bl * Limb
        bm == IF x[2] - bl < y[2] THEN 1 ELSE 0
        m == x[2] - bl - y[2] + bm * Limb
    IN  <<x[1] - bm - y[1], m, l>>

MagBitLen(x) ==
    IF x[1] > 0 THEN 48 + BitLen(x[1])
    ELSE IF x[2] > 0 THEN 24 + BitLen(x[2])
    ELSE BitLen(x[3])

\* the exact magnitude x rounded to a double
RoundToDouble(x) ==
    LET d == MagBitLen(x) - 53
        p == Pow2(d)
        r == x[3] % p
        down == <<x[1], x[2], x[3] - r>>
        up == Carry(x[1], x[2], x[3] - r + p)
        keptOdd == (x[3] \div p) % 2 = 1
    IN  IF d <= 0 THEN x
        ELSE IF 2 * r < p THEN down
        ELSE IF 2 * r > p THEN up
        ELSE IF keptOdd THEN up ELSE down

Dbl(neg, mag) == [neg |-> neg /\ mag # MagZero, mag |-> mag]

\* k * c for an integer k and a positive double c
DblTimesInt(c, k) ==
    Dbl(k < 0, RoundToDouble(MagTimes(c, IF k < 0 THEN -k ELSE k)))

DblAdd(a, b) ==
    IF a.neg = b.neg THEN Dbl(a.neg, RoundToDouble(MagAdd(a.mag, b.mag)))
    ELSE IF MagLess(a.mag, b.mag)
         THEN Dbl(b.neg, RoundToDouble(MagSub(b.mag, a.mag)))
         ELSE Dbl(a.neg, RoundToDouble(MagSub(a.mag, b.mag)))

\* Math.round: the nearest integer, the upper one on a tie
MathRound(a) ==
    IF a.neg
    THEN -(MagAdd(a.mag, <<127, Limb - 1, Limb - 1>>)[1] \div 256)
    ELSE MagAdd(a.mag, <<128, 0, 0>>)[1] \div 256

-----------------------------------------------------------------------------
(* ai-prioritizer.ts: calculatePriorityScore and the map callback of        *)
(* parseAIResponse. An element of the parsed array is an object whose four  *)
(* scores are integers or absent, or null, or a primitive (a number or a    *)
(* string, whose properties all read as undefined). A priorityScore is kept *)
(* in tenths: 80 stands for 8.0.                                            *)

RawScores == (0 - RawBelow)..(10 + RawAbove)

\* a score of an element: <<n>> for the integer n, <<>> when the property is absent
Absent == <<>>

RawField == {<<n>> : n \in RawScores} \cup {Absent}

Entry(l, u, b, t) ==
    [kind |-> "object", legalRiskScore |-> l, userImpactScore |-> u,
     businessRiskScore |-> b, technicalComplexity |-> t]

NullEntry == [kind |-> "null"]

PrimitiveEntry == [kind |-> "primitive"]

\* analysis.field
Field(a, name) == IF a.kind = "object" THEN a[name] ELSE Absent

\* x || 5 : undefined and 0 are falsy
OrFive(x) == IF x = Absent THEN 5 ELSE IF x[1] = 0 THEN 5 ELSE x[1]

\* the doubles 0.35, 0.20 and 0.10 of weights
WeightLegalRisk == <<89, 10066329, 10066328>>

WeightUserImpact == <<89, 10066329, 10066328>>

WeightBusinessRisk == <<51, 3355443, 3355444>>

WeightTechnicalComplexity == <<25, 10066329, 10066330>>

\* reading a property of null throws a TypeError
ReadThrows(a) == a.kind = "null"

calculatePriorityScore(a) ==
    LET score ==
            DblAdd(DblAdd(DblAdd(
                DblTimesInt(WeightLegalRisk, OrFive(Field(a, "legalRiskScore"))),
                DblTimesInt(WeightUserImpact, OrFive(Field(a, "userImpactScore")))),
                DblTimesInt(WeightBusinessRisk, OrFive(Field(a, "businessRiskScore")))),
                DblTimesInt(WeightTechnicalComplexity,
                            10 - OrFive(Field(a, "technicalComplexity"))))
    IN  MathRound(Dbl(score.neg, RoundToDouble(MagTimes(score.mag, 10))))

Min(x, y) == IF x < y THEN x ELSE y

Max(x, y) == IF x > y THEN x ELSE y

ClampNoLowerBound(x) == Min(10, OrFive(x))

\* Math.max(1, Math.min(10, x || 5))
Clamp(x) == Max(1, Min(10, OrFive(x)))

\* the object the map callback of parseAIResponse returns for one element
ParseEntry(a) ==
    [legalRiskScore |-> Clamp(Field(a, "legalRiskScore")),
     userImpactScore |-> Clamp(Field(a, "userImpactScore")),
     businessRiskScore |-> Clamp(Field(a, "businessRiskScore")),
     technicalComplexity |-> Clamp(Field(a, "technicalComplexity")),
     priorityScore |-> calculatePriorityScore(a)]

-----------------------------------------------------------------------------
(* ai-prioritizer.ts: deterministic scoring *)

UpperCase == "ABCDEFGHIJKLMNOPQRSTUVWXYZ"

LowerCase == "abcdefghijklmnopqrstuvwxyz"

LowerChar(c) ==
    IF \E i \in 1..26 : SubSeq(UpperCase, i, i) = c
    THEN LET i == CHOOSE i \in 1..26 : SubSeq(UpperCase, i, i) = c
         IN  SubSeq(LowerCase, i, i)
    ELSE c

\* every character lowered; the string is halved to keep the recursion shallow
RECURSIVE toLowerCase(_)
toLowerCase(str) ==
    IF Len(str) = 0 THEN ""
    ELSE IF Len(str) = 1 THEN LowerChar(str)
    ELSE LET half == Len(str) \div 2
         IN  toLowerCase(SubSeq(str, 1, half))
                 \o toLowerCase(SubSeq(str, half + 1, Len(str)))

\* str.includes(keyword)
Includes(str, keyword) ==
    \E i \in 1..(Len(str) - Len(keyword) + 1) :
        SubSeq(str, i, i + Len(keyword) - 1) = keyword

\* the least i >= from such that sub occurs in str at i; 0 if there is none
IndexOf(str, sub, from) ==
    LET hits == {i \in from..(Len(str) - Len(sub) + 1) :
                    SubSeq(str, i, i + Len(sub) - 1) = sub}
    IN  IF hits = {} THEN 0
        ELSE CHOOSE i \in hits : \A j \in hits : i <= j

criticalKeywords == {"keyboard", "focus", "aria", "label", "title"}

complexKeywords == {"dynamic", "javascript", "react", "framework", "custom"}

hasCriticalIssue(violation) ==
    LET lowered == toLowerCase(violation.description)
    IN  \E keyword \in criticalKeywords : Includes(lowered, keyword)

LegalRiskIgnoringKeywords(violation) ==
    CASE violation.impact = "critical" -> 8
      [] violation.impact = "serious" -> 6
      [] violation.impact = "moderate" -> 4
      [] violation.impact = "minor" -> 2
      [] OTHER -> 5

getBasicLegalRiskScore(violation) ==
    CASE violation.impact = "critical" ->
             IF hasCriticalIssue(violation) THEN 9 ELSE 8
      [] violation.impact = "serious" ->
             IF hasCriticalIssue(violation) THEN 7 ELSE 6
      [] violation.impact = "moderate" -> 4
      [] violation.impact = "minor" -> 2
      [] OTHER -> 5

getBasicUserImpactScore(violation) ==
    CASE violation.impact = "critical" -> 9
      [] violation.impact = "serious" -> 7
      [] violation.impact = "moderate" -> 5
      [] violation.impact = "minor" -> 3
      [] OTHER -> 5

getBasicBusinessRiskScore(violation) ==
    CASE violation.impact = "critical" -> 8
      [] violation.impact = "serious" -> 6
      [] violation.impact = "moderate" -> 4
      [] violation.impact = "minor" -> 2
      [] OTHER -> 5

getBasicTechnicalComplexity(violation) ==
    LET lowered == toLowerCase(violation.description)
    IN  IF \E keyword \in complexKeywords : Includes(lowered, keyword)
        THEN 7 ELSE 4

\* the object both fallback branches of analyzeViolationsWithAI build
BasicAnalysis(violation) ==
    [legalRiskScore |-> getBasicLegalRiskScore(violation),
     userImpactScore |-> getBasicUserImpactScore(violation),
     businessRiskScore |-> getBasicBusinessRiskScore(violation),
     technicalComplexity |-> getBasicTechnicalComplexity(violation),
     priorityScore |-> 0]

createFallbackAnalysis ==
    [legalRiskScore |-> 5,
     userImpactScore |-> 5,
     businessRiskScore |-> 5,
     technicalComplexity |-> 5,
     priorityScore |-> 50]

-----------------------------------------------------------------------------
(* ai-prioritizer.ts: parseAIResponse and analyzeViolationsWithAI.          *)
(* A call ends as Returned(path, value) or as Thrown.                       *)

Returned(path, value) == [status |-> "returned", path |-> path, value |-> value]

Thrown == [status |-> "threw", path |-> "threw", value |-> <<>>]

\* the try block of parseAIResponse throws: no [...] in the text, JSON.parse
\* rejects the match, or the callback reads a property of a null element
ParseThrows(text) ==
    \/ text.json = "none"
    \/ text.json = "invalid"
    \/ text.json = "array" /\ \E i \in 1..Len(text.entries) : ReadThrows(text.entries[i])

parseAIResponse(text, vs) ==
    IF ParseThrows(text)
    THEN Returned("parsefail", [i \in 1..Len(vs) |-> createFallbackAnalysis])
    ELSE Returned("parsed",
                  [i \in 1..Len(text.entries) |-> ParseEntry(text.entries[i])])

\* the branch taken when no key is configured
NoKeyFallback(vs) == Returned("nokey", [i \in 1..Len(vs) |-> BasicAnalysis(vs[i])])

CatchRethrows(vs) == Thrown

\* the catch block of analyzeViolationsWithAI
CatchFallback(vs) == Returned("catch", [i \in 1..Len(vs) |-> BasicAnalysis(vs[i])])

\* the try block of analyzeViolationsWithAI once the request has settled
AfterRequest(r, vs) ==
    CASE r.kind \in {"reject", "timeout"} -> CatchFallback(vs)
      \* response.content is empty: content is undefined, content.type throws
      [] r.kind = "empty" -> CatchFallback(vs)
      \* content.type is not 'text': the explicit throw
      [] r.kind = "nontext" -> CatchFallback(vs)
      [] r.kind = "text" -> parseAIResponse(r.text, vs)

-----------------------------------------------------------------------------
(* Score: the inputs of one call *)

DescLabelRule == "Ensures every form element has a label"

DescContrastRule ==
    "Ensures the contrast between foreground and background colors meets WCAG 2 AA contrast ratio thresholds"

DescReactRole == "React element with role missing aria-label or aria-labelledby"

DescRequired == "Required field missing aria-required attribute"

DescButtonName == "Ensures buttons have discernible text"

ScoreUniverse ==
    {[description |-> DescFormLabel, wcagReference |-> "WCAG 3.3.2", impact |-> "serious"],
     [description |-> DescContrastRule, wcagReference |-> Undefined, impact |-> "serious"],
     [description |-> DescLabelRule, wcagReference |-> Undefined, impact |-> "critical"],
     [description |-> DescButtonName, wcagReference |-> Undefined, impact |-> "critical"],
     [description |-> DescReactRole, wcagReference |-> "WCAG 4.1.2", impact |-> "moderate"],
     [description |-> DescRequired, wcagReference |-> "WCAG 3.3.3", impact |-> "minor"],
     [description |-> DescButtonName, wcagReference |-> Undefined, impact |-> UnrecognizedImpact]}

ReplyEntries ==
    {Entry(<<n>>, <<n>>, <<n>>, <<n>>) : n \in {0 - RawBelow, 0, 10 + RawAbove}}
        \cup {Entry(Absent, Absent, Absent, Absent),
              Entry(<<8>>, <<9>>, <<7>>, <<4>>),
              NullEntry, PrimitiveEntry}

ReplyTexts ==
    {[json |-> "none", entries |-> <<>>], [json |-> "invalid", entries |-> <<>>]}
        \cup {[json |-> "array", entries |-> e] : e \in SeqsUpTo(ReplyEntries, MaxReplyLen)}

NoReply == [kind |-> "pending", text |-> [json |-> "none", entries |-> <<>>]]

Failure(kind) == [kind |-> kind, text |-> [json |-> "none", entries |-> <<>>]]

IdleScore ==
    /\ apiKey = FALSE
    /\ violations = <<>>
    /\ scorePc = "idle"
    /\ scorePath = "none"
    /\ reply = NoReply
    /\ analyses = <<>>
    /\ scoreRequests = 0

InitScoreCall ==
    /\ apiKey \in BOOLEAN
    /\ \E vs \in SeqsUpTo(ScoreUniverse, MaxViolations) :
          violations = WithIds("v", vs)
    /\ scorePc = "start"
    /\ scorePath = "none"
    /\ reply = NoReply
    /\ analyses = <<>>
    /\ scoreRequests = 0

Finish(outcome) ==
    /\ scorePc' = outcome.status
    /\ scorePath' = outcome.path
    /\ analyses' = outcome.value

-----------------------------------------------------------------------------
(* code-fix-generator.ts. A violation carries tags and nodes when axe-core  *)
(* made it; a finding of the custom checks carries neither. A fix is kept   *)
(* as the id it is tagged with, its framework, the template or response     *)
(* that filled it.                                                          *)

batchSize == 3

Frameworks == <<"react", "vue", "angular", "svelte">>

Marker(f) ==
    CASE f = "react" -> "data-reactroot"
      [] f = "vue" -> "data-v-"
      [] f = "angular" -> "ng-"
      [] f = "svelte" -> "data-svelte-"

\* v.nodes.some(node => node.html.includes(marker)): the first node that
\* has no html makes it throw, the first that includes the marker makes it true
NodesSignal(html, marker) ==
    LET stops == {k \in 1..Len(html) :
                     html[k] = Undefined \/ Includes(html[k], marker)}
    IN  IF stops = {} THEN "false"
        ELSE LET k == CHOOSE k \in stops : \A j \in stops : k <= j
             IN  IF html[k] = Undefined THEN "throws" ELSE "true"

\* the value of  v.framework === f || v.tags.some(..) || v.nodes.some(..) :
\* "true", "false", or "throws" when tags or nodes is read from undefined
Signal(v, f) ==
    IF v.framework = f THEN "true"
    ELSE IF ~v.tags.present THEN "throws"
    ELSE IF \E tag \in v.tags.values : Includes(tag, f) THEN "true"
    ELSE IF ~v.nodes.present THEN "throws"
    ELSE NodesSignal(v.nodes.html, Marker(f))

\* violations.some(v => ...) for framework f, from the k-th violation on
RECURSIVE Some(_, _, _)
Some(vs, f, k) ==
    IF k > Len(vs) THEN "false"
    ELSE IF Signal(vs[k], f) = "false" THEN Some(vs, f, k + 1)
    ELSE Signal(vs[k], f)

\* hasReact, hasVue, hasAngular and hasSvelte are all computed before any is used
DetectThrows(vs, context) ==
    /\ ~context.framework.present
    /\ \E n \in 1..4 : Some(vs, Frameworks[n], 1) = "throws"

detectPrimaryFramework(vs, context) ==
    IF context.framework.present THEN toLowerCase(context.framework.value)
    ELSE IF Some(vs, "react", 1) = "true" THEN "react"
    ELSE IF Some(vs, "vue", 1) = "true" THEN "vue"
    ELSE IF Some(vs, "angular", 1) = "true" THEN "angular"
    ELSE IF Some(vs, "svelte", 1) = "true" THEN "svelte"
    ELSE "html"

\* v.nodes[0] throws when the violation has no nodes property
ReadsNodesThrows(vs) == \E i \in 1..Len(vs) : ~vs[i].nodes.present

TemplateAriaFirst(v) ==
    LET d == toLowerCase(v.description)
    IN  IF Includes(d, "aria") \/ Includes(d, "label") THEN "aria"
        ELSE IF Includes(d, "contrast") THEN "contrast"
        ELSE IF Includes(d, "focus") \/ Includes(d, "keyboard") THEN "focus"
        ELSE "generic"

\* generateBasicFixForViolation: the first matching branch
Template(v) ==
    LET d == toLowerCase(v.description)
    IN  IF Includes(d, "contrast") THEN "contrast"
        ELSE IF Includes(d, "aria") \/ Includes(d, "label") THEN "aria"
        ELSE IF Includes(d, "focus") \/ Includes(d, "keyboard") THEN "focus"
        ELSE "generic"

\* violation.nodes[0]?.html || '' , for a violation that has nodes
originalHtml(v) ==
    IF Len(v.nodes.html) = 0 THEN ""
    ELSE IF v.nodes.html[1] = Undefined THEN ""
    ELSE v.nodes.html[1]

\* str with text put in before position at
InsertAt(str, at, text) ==
    SubSeq(str, 1, at - 1) \o text \o SubSeq(str, at, Len(str))

\* originalHtml.replace(/color:\s*[^;]+;?/g, 'color: #333333;') from position
\* from on: a match starts at "color:" when a character other than ';'
\* follows, and runs to the next ';' or to the end
RECURSIVE ReplaceColors(_, _)
ReplaceColors(str, from) ==
    LET i == IndexOf(str, "color:", from)
        after == i + 6
        semi == IndexOf(str, ";", after)
        stop == IF semi = 0 THEN Len(str) ELSE semi
    IN  IF i = 0 THEN SubSeq(str, from, Len(str))
        ELSE IF after > Len(str) \/ semi = after
             THEN SubSeq(str, from, after - 1) \o ReplaceColors(str, after)
        ELSE SubSeq(str, from, i - 1) \o "color: #333333;"
                 \o ReplaceColors(str, stop + 1)

generateContrastFix(v) ==
    LET html == originalHtml(v)
    IN  IF Includes(html, "color:") THEN ReplaceColors(html, 1) ELSE html

\* str.replace(/<tag([^>]*)>/, '<tag$1' + attributes + '>'): the first
\* opening of the tag that a '>' follows gets the attributes before that '>'
AddAttributes(str, tag, attributes) ==
    LET open == IndexOf(str, tag, 1)
        close == IF open = 0 THEN 0 ELSE IndexOf(str, ">", open + Len(tag))
    IN  IF close = 0 THEN str ELSE InsertAt(str, close, attributes)

\* both branches of the framework test do the same
generateAriaFix(v, framework) ==
    LET html == originalHtml(v)
    IN  IF Includes(html, "<button") /\ ~Includes(html, "aria-label")
        THEN AddAttributes(html, "<button", " aria-label=\"Action button\"")
        ELSE html

FocusStyle == "outline: 2px solid #0066cc; outline-offset: 2px;"

\* \w
WordChars == "ABCDEFGHIJKLMNOPQRSTUVWXYZabcdefghijklmnopqrstuvwxyz0123456789_"

IsWordChar(c) == \E i \in 1..Len(WordChars) : SubSeq(WordChars, i, i) = c

\* str.replace(/style="([^"]*)"/, 'style="$1 ' + FocusStyle + '"')
ExtendStyle(str) ==
    LET open == IndexOf(str, "style=\"", 1)
        close == IF open = 0 THEN 0 ELSE IndexOf(str, "\"", open + 7)
    IN  IF close = 0 THEN str ELSE InsertAt(str, close, " " \o FocusStyle)

\* str.replace(/<(\w+)([^>]*)>/, '<$1 style="' + FocusStyle + '"$2>'): the
\* first '<' that a word and later a '>' follow gets the style after the word
AddStyle(str) ==
    LET opens == {i \in 1..(Len(str) - 1) :
                     /\ SubSeq(str, i, i) = "<"
                     /\ IsWordChar(SubSeq(str, i + 1, i + 1))
                     /\ IndexOf(str, ">", i + 2) # 0}
        open == CHOOSE i \in opens : \A j \in opens : i <= j
        ends == {k \in (open + 1)..Len(str) :
                    \A j \in (open + 1)..k : IsWordChar(SubSeq(str, j, j))}
        wordEnd == CHOOSE k \in ends : \A j \in ends : j <= k
    IN  IF opens = {} THEN str
        ELSE InsertAt(str, wordEnd + 1, " style=\"" \o FocusStyle \o "\"")

generateFocusFix(v, framework) ==
    LET html == originalHtml(v)
    IN  IF ~Includes(html, "focus") /\ ~Includes(html, ":focus")
        THEN IF Includes(html, "style=") THEN ExtendStyle(html) ELSE AddStyle(html)
        ELSE html

generateGenericFix(v) ==
    LET html == originalHtml(v)
    IN  IF ~Includes(html, "role") /\ ~Includes(html, "aria-") /\ Includes(html, "<div")
        THEN AddAttributes(html, "<div", " role=\"region\" aria-label=\"Content area\"")
        ELSE html

\* the fixedCode of generateBasicFixForViolation
BasicFixedCode(v, framework) ==
    LET template == Template(v)
    IN  CASE template = "contrast" -> generateContrastFix(v)
          [] template = "aria" -> generateAriaFix(v, framework)
          [] template = "focus" -> generateFocusFix(v, framework)
          [] template = "generic" -> generateGenericFix(v)

generateBasicFixes(vs, context) ==
    IF DetectThrows(vs, context) \/ ReadsNodesThrows(vs) THEN Thrown
    ELSE LET framework == detectPrimaryFramework(vs, context)
         IN  Returned("basic",
                 [i \in 1..Len(vs) |->
                     [violationId |-> vs[i].id,
                      framework |-> framework,
                      origin |-> Template(vs[i]),
                      fixedCode |-> BasicFixedCode(vs[i], framework)]])

\* fix.fixedCode || '' of an element of the parsed response
FixedCodeOf(entry) ==
    IF entry = "fix" THEN "<button aria-label=\"Submit order\">Submit</button>" ELSE ""

\* the try block of parseCodeFixResponse throws: no [...] in the text,
\* JSON.parse rejects it, an element is null, or violations[index] is
\* undefined or has no nodes
FixParseThrows(text, batch) ==
    \/ text.json \in {"none", "invalid"}
    \/ \E i \in 1..Len(text.entries) :
          \/ i > Len(batch)
          \/ ~batch[i].nodes.present
          \/ text.entries[i] = "null"

parseCodeFixResponse(text, batch, framework) ==
    IF FixParseThrows(text, batch) THEN <<>>
    ELSE [i \in 1..Len(text.entries) |->
             [framework |-> framework, origin |-> "ai",
              fixedCode |-> FixedCodeOf(text.entries[i])]]

TagFixesByCallIndex(fixes, batch) ==
    [i \in 1..Len(fixes) |->
        [violationId |-> fixViolations[i].id,
         framework |-> fixes[i].framework,
         origin |-> fixes[i].origin,
         fixedCode |-> fixes[i].fixedCode]]

\* the return statement of generateBatchFixes
TagFixes(fixes, batch) ==
    [i \in 1..Len(fixes) |->
        [violationId |-> batch[i].id,
         framework |-> fixes[i].framework,
         origin |-> fixes[i].origin,
         fixedCode |-> fixes[i].fixedCode]]

\* violations.slice(i, i + batchSize)
Batch(vs, i) == SubSeq(vs, i + 1, Min(Len(vs), i + batchSize))

-----------------------------------------------------------------------------
(* GenerateFixes: the inputs of one call *)

NoTags == [present |-> FALSE, values |-> {}]

NoNodes == [present |-> FALSE, html |-> <<>>]

Tags(set) == [present |-> TRUE, values |-> set]

Nodes(html) == [present |-> TRUE, html |-> html]

FixUniverse ==
    {[description |-> DescContrastRule, framework |-> Undefined,
      tags |-> Tags({"cat.color", "wcag2aa"}),
      nodes |-> Nodes(<<"<p style=\"color: #999;\">Fine print</p>">>)],
     [description |-> DescButtonName, framework |-> Undefined,
      tags |-> Tags({"cat.name-role-value", "wcag2a"}),
      nodes |-> Nodes(<<"<div id=\"root\" data-reactroot><button></button></div>">>)],
     [description |-> DescLabelRule, framework |-> Undefined,
      tags |-> Tags({"cat.forms", "vue"}),
      nodes |-> Nodes(<<"<input data-v-7ba5bd90 type=\"text\">">>)],
     [description |-> DescFormLabel, framework |-> Undefined,
      tags |-> NoTags, nodes |-> NoNodes]}

FixWithIds(s) ==
    [i \in 1..Len(s) |->
        [id |-> <<"v", i>>,
         description |-> s[i].description,
         framework |-> s[i].framework,
         tags |-> s[i].tags,
         nodes |-> s[i].nodes]]

FixContexts ==
    {[framework |-> [present |-> FALSE, value |-> ""]],
     [framework |-> [present |-> TRUE, value |-> "Angular"]]}

FixReplyEntries == {"fix", "null"}

FixReplyTexts ==
    {[json |-> "none", entries |-> <<>>], [json |-> "invalid", entries |-> <<>>]}
        \cup {[json |-> "array", entries |-> e] :
                 e \in SeqsUpTo(FixReplyEntries, MaxFixReplyLen)}

IdleFix ==
    /\ fixViolations = <<>>
    /\ fixContext = [framework |-> [present |-> FALSE, value |-> ""]]
    /\ fixPc = "idle"
    /\ batchStart = 0
    /\ batchFramework = ""
    /\ allFixes = <<>>
    /\ fixRequests = 0

InitFixCall ==
    /\ \E vs \in SeqsUpTo(FixUniverse, MaxFixViolations) :
          fixViolations = FixWithIds(vs)
    /\ fixContext \in FixContexts
    /\ fixPc = "start"
    /\ batchStart = 0
    /\ batchFramework = ""
    /\ allFixes = <<>>
    /\ fixRequests = 0

\* generateCodeFixes ends with the outcome of generateBasicFixes
EndWithBasicFixes ==
    LET outcome == generateBasicFixes(fixViolations, fixContext)
    IN  /\ fixPc' = outcome.status
        /\ allFixes' = outcome.value

-----------------------------------------------------------------------------
(* scanner.ts: the form-accessibility check of runCustomAccessibilityChecks. *)
(* An input is described by what the check reads of it.                      *)

\* labelling: what associates a name with the control, if anything
Labellings == {"none", "label-for", "aria-label", "aria-labelledby"}

\* required: "no", "aria" (required with aria-required), "bare" (required only)
Inputs == [labelling : Labellings, hidden : BOOLEAN, required : {"no", "aria", "bare"}]

\* validation: "no-submit", "novalidate", "handled" (an error affordance
\* exists), "unhandled"
Forms == [inputs : SeqsUpTo(Inputs, MaxInputs),
          validation : {"no-submit", "novalidate", "handled", "unhandled"}]

Pages == {<<>>} \cup {<<form>> : form \in Forms}

\* the issues pushed for one input, in the order of the two if statements
InputIssues(input, formIndex, inputIndex) ==
    (IF input.labelling = "none" /\ ~input.hidden
     THEN <<[id |-> <<"form-label", formIndex, inputIndex>>,
             description |-> DescFormLabel,
             impact |-> "serious",
             wcagReference |-> "WCAG 3.3.2"]>>
     ELSE <<>>)
    \o
    (IF input.required = "bare"
     THEN <<[id |-> <<"required-aria", formIndex, inputIndex>>,
             description |-> DescRequired,
             impact |-> "minor",
             wcagReference |-> "WCAG 3.3.3"]>>
     ELSE <<>>)

RECURSIVE InputsIssues(_, _, _)
InputsIssues(inputs, formIndex, k) ==
    IF k > Len(inputs) THEN <<>>
    ELSE InputIssues(inputs[k], formIndex, k - 1)
             \o InputsIssues(inputs, formIndex, k + 1)

FormIssues(form, formIndex) ==
    InputsIssues(form.inputs, formIndex, 1)
    \o
    (IF form.validation = "unhandled"
     THEN <<[id |-> <<"form-validation", formIndex, 0>>,
             description |-> "Form missing validation error handling",
             impact |-> "moderate",
             wcagReference |-> "WCAG 3.3.1"]>>
     ELSE <<>>)

RECURSIVE FormAccessibility(_, _)
FormAccessibility(forms, k) ==
    IF k > Len(forms) THEN <<>>
    ELSE FormIssues(forms[k], k - 1) \o FormAccessibility(forms, k + 1)

-----------------------------------------------------------------------------
(* scanner.ts: scanWebsite. What the browser, the page and axe-core answer *)
(* is drawn; what scanWebsite does with the answers is the code's.         *)

ScanFrameworks == {"react", "vanilla"}

ScanOptions ==
    [includePerformance : BOOLEAN, customRules : BOOLEAN, framework : ScanFrameworks]

\* the keys of customChecks, in the order their values are evaluated
customCheckNames ==
    <<"react-aria-compliance", "enhanced-color-contrast",
      "screen-reader-navigation", "form-accessibility", "focus-management">>

\* an issue that the check of that name pushes
CheckFinding(name) ==
    CASE name = "react-aria-compliance" ->
            [description |-> DescReactRole,
             wcagReference |-> "WCAG 4.1.2", impact |-> "moderate"]
      [] name = "enhanced-color-contrast" ->
            [description |-> "Small gray text on white background may not meet contrast requirements",
             wcagReference |-> "WCAG 1.4.3", impact |-> "moderate"]
      [] name = "screen-reader-navigation" ->
            [description |-> DescSkipNav,
             wcagReference |-> "WCAG 2.4.1", impact |-> "moderate"]
      [] name = "form-accessibility" ->
            [description |-> DescFormLabel,
             wcagReference |-> "WCAG 3.3.2", impact |-> "serious"]
      [] name = "focus-management" ->
            [description |-> "Missing visible focus indicators for keyboard navigation",
             wcagReference |-> "WCAG 2.4.7", impact |-> "serious"]

\* the arrays page.evaluate of that check may resolve to
CheckOutcomes(name) ==
    {WithIds(name, s) : s \in SeqsUpTo({CheckFinding(name)}, MaxScanFindings)}

\* the violations axe-core may report
ScanAxeUniverse ==
    {[description |-> DescLabelRule, wcagReference |-> Undefined, impact |-> "critical"],
     [description |-> DescContrastRule, wcagReference |-> Undefined, impact |-> "serious"]}

\* const violations = [...customChecks[..], ...]
RECURSIVE Spread(_, _)
Spread(arrays, k) ==
    IF k > Len(arrays) THEN <<>> ELSE arrays[k] \o Spread(arrays, k + 1)

NoScanResult == [present |-> FALSE, violations |-> <<>>, performanceMetrics |-> "undefined"]

\* the object of the return statement of scanWebsite
ScanResult(merged, metrics) ==
    [present |-> TRUE, violations |-> merged, performanceMetrics |-> metrics]

LeaveTryUnclosedOnThrow(outcome) == IF outcome = "threw" THEN "threw" ELSE "finally"

\* try { ... } finally { await browser.close() }: however the try block is
\* left, the finally block runs next
LeaveTry(outcome) == "finally"

\* the step after axe-core resolved
AfterAxe(options) == IF options.customRules THEN "custom" ELSE "performance"

IdleScan ==
    /\ scanOptions = [includePerformance |-> FALSE, customRules |-> FALSE,
                      framework |-> "vanilla"]
    /\ scanPc = "idle"
    /\ scanPending = "none"
    /\ scanBrowsers = 0
    /\ customChecks = <<>>
    /\ scanFailure = "none"
    /\ performanceMetrics = "undefined"
    /\ scanResult = NoScanResult

-----------------------------------------------------------------------------
(* scanner.ts: scanMultiplePages. URLs are strings, as in the program. *)

baseUrl == "https://shop.example/"

\* what the href property of an anchor of the seed document may be: the
\* seed itself, two more pages of the site, a host whose name begins with
\* the site's, and another site
Hrefs ==
    {baseUrl, "https://shop.example/about", "https://shop.example/contact",
     "https://shop.example.evil.test/login", "https://cdn.other.test/lib.js"}

\* scheme, "://" and authority of an absolute URL (URL.origin)
Origin(url) ==
    LET authority == IndexOf(url, "://", 1) + 3
        slash == IndexOf(url, "/", authority)
    IN  IF slash = 0 THEN url ELSE SubSeq(url, 1, slash - 1)

\* String.prototype.startsWith
StartsWith(str, prefix) ==
    /\ Len(str) >= Len(prefix)
    /\ SubSeq(str, 1, Len(prefix)) = prefix

\* Array.prototype.slice(0, end), end counted from the back when negative
Slice(s, end) ==
    LET stop == IF end < 0 THEN Max(Len(s) + end, 0) ELSE Min(end, Len(s))
    IN  SubSeq(s, 1, stop)

\* .filter(href => href.startsWith(window.location.origin))
RECURSIVE FilterSameOrigin(_, _, _)
FilterSameOrigin(hrefs, origin, k) ==
    IF k > Len(hrefs) THEN <<>>
    ELSE (IF StartsWith(hrefs[k], origin) THEN <<hrefs[k]>> ELSE <<>>)
             \o FilterSameOrigin(hrefs, origin, k + 1)

\* the value of links: what page.evaluate returns for the seed document
DiscoverLinks(hrefs, limit) ==
    Slice(FilterSameOrigin(hrefs, Origin(baseUrl), 1), limit - 1)

\* const urls = [baseUrl, ...links].slice(0, maxPages)
CrawlUrls(found, limit) == Slice(<<baseUrl>> \o found, limit)

\* where scanMultiplePages stands once `taken` urls are done: in the loop,
\* or past it at return results, which the finally block follows
AfterPage(taken, all) ==
    IF taken < Len(all) THEN [pc |-> "loop", pending |-> "none"]
    ELSE [pc |-> "finally", pending |-> "returned"]

RethrowPageFailure(taken, all) == [pc |-> "finally", pending |-> "threw"]

\* catch (error) { console.error(..) }: the loop goes on with the next url
CatchPageFailure(taken, all) == AfterPage(taken, all)

AfterCloseStillOpen(browser) == browser

\* await browser.close(): the browser is closed, also when it was already
AfterClose(browser) == "closed"

IdleCrawl ==
    /\ maxPages = 1
    /\ anchors = <<>>
    /\ crawlPc = "idle"
    /\ crawlPending = "none"
    /\ crawlFailure = "none"
    /\ links = <<>>
    /\ crawlBrowser = "none"
    /\ urls = <<>>
    /\ urlIndex = 0
    /\ scanOk = <<>>
    /\ results = <<>>

-----------------------------------------------------------------------------
(* Priority: one element of a response is drawn, then the callback runs *)

AlwaysCredential == TRUE

\* the test  process.env.ANTHROPIC_API_KEY  that opens both entry points
HasCredential == apiKey

NoResponse == [status |-> 0]

NoRequest == [useAI |-> "undefined"]

NoRouteOptions == [maxPages |-> 0]

IdleHeadings ==
    /\ headings = <<>>
    /\ headingIssues = <<>>
    /\ headingPc = "idle"

IdleRoute ==
    /\ request = NoRequest
    /\ routePc = "idle"
    /\ routeOptions = NoRouteOptions
    /\ detectPc = "idle"
    /\ detectPending = "none"
    /\ detectBrowser = "none"
    /\ detected = ""
    /\ pageViolations = <<>>
    /\ routeViolations = <<>>
    /\ aiCalls = 0
    /\ aiAnalysis = "null"
    /\ response = NoResponse

IdleForm ==
    /\ page = <<>>
    /\ formPc = "idle"

IdleParse ==
    /\ analysis = NullEntry
    /\ parsed = Absent
    /\ parsePc = "idle"

IdleMerge ==
    /\ axeViolations = <<>>
    /\ customViolations = <<>>
    /\ mergedViolations = <<>>
    /\ mergePc = "idle"

InitPriority ==
    /\ analysis \in {Entry(l, u, b, t) : l \in RawField, u \in RawField,
                                         b \in RawField, t \in RawField}
    /\ parsed = Absent
    /\ parsePc = "ready"
    /\ IdleMerge /\ IdleScore /\ IdleFix /\ IdleForm /\ IdleScan /\ IdleCrawl /\ IdleHeadings /\ IdleRoute

ParseOne ==
    /\ parsePc = "ready"
    /\ parsed' = ParseEntry(analysis)
    /\ parsePc' = "done"
    /\ UNCHANGED <<analysis, mergeVars, scoreVars, fixVars, formVars, scanVars, crawlVars,
                   headingVars, routeVars>>

NextPriority == ParseOne

SpecPriority == InitPriority /\ [][NextPriority]_vars

-----------------------------------------------------------------------------
(* Score: analyzeViolationsWithAI, one step per await *)

InitScore ==
    InitScoreCall /\ IdleParse /\ IdleMerge /\ IdleFix /\ IdleForm /\ IdleScan /\ IdleCrawl /\ IdleHeadings /\ IdleRoute

\* no key: the fallback array is returned at once
ScoreWithoutKey ==
    /\ scorePc = "start"
    /\ ~HasCredential
    /\ Finish(NoKeyFallback(violations))
    /\ UNCHANGED <<apiKey, violations, reply, scoreRequests, parseVars, mergeVars, fixVars, formVars, scanVars, crawlVars,
                   headingVars, routeVars>>

\* the prompt is built and anthropic.messages.create is called
ScoreRequest ==
    /\ scorePc = "start"
    /\ HasCredential
    /\ scorePc' = "awaiting"
    /\ scoreRequests' = scoreRequests + 1
    /\ UNCHANGED <<apiKey, violations, scorePath, reply, analyses, parseVars, mergeVars, fixVars, formVars, scanVars, crawlVars,
                   headingVars, routeVars>>

\* the request rejects (network or API error): the catch block runs
RequestRejects ==
    /\ scorePc = "awaiting"
    /\ reply' = Failure("reject")
    /\ Finish(AfterRequest(Failure("reject"), violations))
    /\ UNCHANGED <<apiKey, violations, scoreRequests, parseVars, mergeVars, fixVars, formVars, scanVars, crawlVars,
                   headingVars, routeVars>>

\* the client gives up waiting and rejects: the catch block runs
RequestTimesOut ==
    /\ scorePc = "awaiting"
    /\ reply' = Failure("timeout")
    /\ Finish(AfterRequest(Failure("timeout"), violations))
    /\ UNCHANGED <<apiKey, violations, scoreRequests, parseVars, mergeVars, fixVars, formVars, scanVars, crawlVars,
                   headingVars, routeVars>>

\* the response has no content block
ReplyEmpty ==
    /\ scorePc = "awaiting"
    /\ reply' = Failure("empty")
    /\ Finish(AfterRequest(Failure("empty"), violations))
    /\ UNCHANGED <<apiKey, violations, scoreRequests, parseVars, mergeVars, fixVars, formVars, scanVars, crawlVars,
                   headingVars, routeVars>>

\* the first content block is not of type text
ReplyNonText ==
    /\ scorePc = "awaiting"
    /\ reply' = Failure("nontext")
    /\ Finish(AfterRequest(Failure("nontext"), violations))
    /\ UNCHANGED <<apiKey, violations, scoreRequests, parseVars, mergeVars, fixVars, formVars, scanVars, crawlVars,
                   headingVars, routeVars>>

\* the first content block is text: parseAIResponse decides
ReplyText ==
    /\ scorePc = "awaiting"
    /\ \E text \in ReplyTexts :
          /\ reply' = [kind |-> "text", text |-> text]
          /\ Finish(AfterRequest([kind |-> "text", text |-> text], violations))
    /\ UNCHANGED <<apiKey, violations, scoreRequests, parseVars, mergeVars, fixVars, formVars, scanVars, crawlVars,
                   headingVars, routeVars>>

NextScore ==
    \/ ScoreWithoutKey
    \/ ScoreRequest
    \/ RequestRejects
    \/ RequestTimesOut
    \/ ReplyEmpty
    \/ ReplyNonText
    \/ ReplyText

SpecScore == InitScore /\ [][NextScore]_vars

-----------------------------------------------------------------------------
(* GenerateFixes: generateCodeFixes, one step per await *)

InitFix ==
    /\ InitFixCall
    /\ apiKey \in BOOLEAN
    /\ violations = <<>>
    /\ scorePc = "idle"
    /\ scorePath = "none"
    /\ reply = NoReply
    /\ analyses = <<>>
    /\ scoreRequests = 0
    /\ IdleParse /\ IdleMerge /\ IdleForm /\ IdleScan /\ IdleCrawl /\ IdleHeadings /\ IdleRoute

FixUnchanged ==
    UNCHANGED <<fixViolations, fixContext, scoreVars, parseVars, mergeVars, formVars, scanVars, crawlVars,
                   headingVars, routeVars>>

\* no key: generateBasicFixes at once
FixWithoutKey ==
    /\ fixPc = "start"
    /\ ~HasCredential
    /\ EndWithBasicFixes
    /\ UNCHANGED <<batchStart, batchFramework, fixRequests>>
    /\ FixUnchanged

\* a key: generateAICodeFixes starts its loop
FixWithKey ==
    /\ fixPc = "start"
    /\ HasCredential
    /\ fixPc' = "loop"
    /\ UNCHANGED <<batchStart, batchFramework, allFixes, fixRequests>>
    /\ FixUnchanged

\* the loop is over: allFixes is returned
FixLoopEnds ==
    /\ fixPc = "loop"
    /\ batchStart >= Len(fixViolations)
    /\ fixPc' = "returned"
    /\ UNCHANGED <<batchStart, batchFramework, allFixes, fixRequests>>
    /\ FixUnchanged

\* generateBatchFixes throws before the request: detectPrimaryFramework or
\* buildCodeFixPrompt reads tags or nodes of undefined; generateCodeFixes
\* catches and ends with generateBasicFixes
BatchPreparationFails ==
    /\ fixPc = "loop"
    /\ batchStart < Len(fixViolations)
    /\ LET batch == Batch(fixViolations, batchStart)
       IN  DetectThrows(batch, fixContext) \/ ReadsNodesThrows(batch)
    /\ EndWithBasicFixes
    /\ UNCHANGED <<batchStart, batchFramework, fixRequests>>
    /\ FixUnchanged

\* generateBatchFixes calls anthropic.messages.create for the next batch
BatchRequest ==
    /\ fixPc = "loop"
    /\ batchStart < Len(fixViolations)
    /\ LET batch == Batch(fixViolations, batchStart)
       IN  /\ ~(DetectThrows(batch, fixContext) \/ ReadsNodesThrows(batch))
           /\ batchFramework' = detectPrimaryFramework(batch, fixContext)
    /\ fixPc' = "awaiting"
    /\ fixRequests' = fixRequests + 1
    /\ UNCHANGED <<batchStart, allFixes>>
    /\ FixUnchanged

\* the request rejects, or the response has no text block: generateCodeFixes
\* catches and ends with generateBasicFixes
BatchFails ==
    /\ fixPc = "awaiting"
    /\ EndWithBasicFixes
    /\ UNCHANGED <<batchStart, batchFramework, fixRequests>>
    /\ FixUnchanged

\* the response is text: its fixes are tagged and pushed, the loop goes on
BatchReplies ==
    /\ fixPc = "awaiting"
    /\ \E text \in FixReplyTexts :
          LET batch == Batch(fixViolations, batchStart)
              fixes == parseCodeFixResponse(text, batch, batchFramework)
          IN  allFixes' = allFixes \o TagFixes(fixes, batch)
    /\ batchStart' = batchStart + batchSize
    /\ fixPc' = "loop"
    /\ UNCHANGED <<batchFramework, fixRequests>>
    /\ FixUnchanged

NextFix ==
    \/ FixWithoutKey
    \/ FixWithKey
    \/ FixLoopEnds
    \/ BatchPreparationFails
    \/ BatchRequest
    \/ BatchFails
    \/ BatchReplies

SpecFix == InitFix /\ [][NextFix]_vars

-----------------------------------------------------------------------------
(* Templates: generateCodeFixes without a key, for violations whose        *)
(* descriptions carry several keywords and whose nodes take every shape    *)

TemplateDescriptions ==
    {"ARIA label has insufficient color contrast",
     "Contrast of the focus ring is too low",
     "Keyboard focus is lost behind the aria-hidden overlay",
     "Form field has no LABEL",
     "Element is not reachable by Keyboard",
     "Images must have alternate text",
     DescContrastRule}

\* no nodes property, no node, a node without html, an empty snippet, snippets
TemplateNodes ==
    {NoNodes, Nodes(<<>>), Nodes(<<Undefined>>), Nodes(<<"">>),
     Nodes(<<"<button class=\"btn\">Go</button>">>),
     Nodes(<<"<p style=\"color: #999;\">Fine print</p>">>),
     Nodes(<<"<div class=\"card\"><a href=\"#\">More</a></div>">>)}

TemplateUniverse ==
    [description : TemplateDescriptions, framework : {Undefined},
     tags : {Tags({"wcag2aa"})}, nodes : TemplateNodes]

TemplateContexts ==
    {[framework |-> [present |-> FALSE, value |-> ""]],
     [framework |-> [present |-> TRUE, value |-> "React"]]}

InitTemplates ==
    /\ \E vs \in SeqsUpTo(TemplateUniverse, MaxTemplateViolations) :
          fixViolations = FixWithIds(vs)
    /\ fixContext \in TemplateContexts
    /\ fixPc = "start"
    /\ batchStart = 0
    /\ batchFramework = ""
    /\ allFixes = <<>>
    /\ fixRequests = 0
    /\ IdleScore /\ IdleParse /\ IdleMerge /\ IdleForm /\ IdleScan /\ IdleCrawl /\ IdleHeadings /\ IdleRoute

NextTemplates == FixWithoutKey

SpecTemplates == InitTemplates /\ [][NextTemplates]_vars

-----------------------------------------------------------------------------
(* Form: a page is checked by the form heuristic and its findings are scored *)
(* without a key                                                             *)

InitForm ==
    /\ page \in Pages
    /\ formPc = "loaded"
    /\ IdleParse /\ IdleScore /\ IdleFix /\ IdleScan /\ IdleCrawl /\ IdleHeadings /\ IdleRoute
    /\ axeViolations = <<>>
    /\ customViolations = <<>>
    /\ mergedViolations = <<>>
    /\ mergePc = "idle"

\* page.evaluate of 'form-accessibility'
FormCheck ==
    /\ formPc = "loaded"
    /\ customViolations' = FormAccessibility(page, 1)
    /\ formPc' = "checked"
    /\ UNCHANGED <<page, axeViolations, mergedViolations, mergePc,
                   parseVars, scoreVars, fixVars, scanVars, crawlVars,
                   headingVars, routeVars>>

\* the findings become the argument of analyzeViolationsWithAI
HandToScore ==
    /\ formPc = "checked"
    /\ violations' = customViolations
    /\ scorePc' = "start"
    /\ formPc' = "handed"
    /\ UNCHANGED <<page, apiKey, scorePath, reply, analyses, scoreRequests,
                   mergeVars, parseVars, fixVars, scanVars, crawlVars,
                   headingVars, routeVars>>

NextForm ==
    \/ FormCheck
    \/ HandToScore
    \/ ScoreWithoutKey

SpecForm == InitForm /\ [][NextForm]_vars

-----------------------------------------------------------------------------
(* FormScan: the findings of the form heuristic pass through the merge of *)
(* scanWebsite, for a page on which axe-core reports nothing              *)

\* mergeViolations(axeResults.violations, customResults.violations)
MergeFindings ==
    /\ formPc = "checked"
    /\ mergedViolations' = mergeViolations(axeViolations, customViolations)
    /\ formPc' = "merged"
    /\ UNCHANGED <<page, axeViolations, customViolations, mergePc,
                   parseVars, scoreVars, fixVars, scanVars, crawlVars,
                   headingVars, routeVars>>

NextFormScan ==
    \/ FormCheck
    \/ MergeFindings

SpecFormScan == InitForm /\ [][NextFormScan]_vars

-----------------------------------------------------------------------------
(* Calls: one call of either entry point, with or without a key *)

InitCalls == InitScore \/ InitFix

NextCalls == NextScore \/ NextFix

SpecCalls == InitCalls /\ [][NextCalls]_vars

-----------------------------------------------------------------------------
(* Merge: the inputs are drawn, then mergeViolations is applied *)

InitMerge ==
    /\ \E all \in SeqsUpTo(MergeUniverse, MaxMergeLen) :
       \E k \in 0..Len(all) :
          /\ axeViolations = WithIds("axe", SubSeq(all, 1, k))
          /\ customViolations = WithIds("custom", SubSeq(all, k + 1, Len(all)))
    /\ mergedViolations = <<>>
    /\ mergePc = "ready"
    /\ IdleParse /\ IdleScore /\ IdleFix /\ IdleForm /\ IdleScan /\ IdleCrawl /\ IdleHeadings /\ IdleRoute

Merge ==
    /\ mergePc = "ready"
    /\ mergedViolations' = mergeViolations(axeViolations, customViolations)
    /\ mergePc' = "done"
    /\ UNCHANGED <<axeViolations, customViolations, parseVars, scoreVars, fixVars, formVars, scanVars, crawlVars,
                   headingVars, routeVars>>

NextMerge == Merge

SpecMerge == InitMerge /\ [][NextMerge]_vars

-----------------------------------------------------------------------------
(* Scan: scanWebsite, one step per await *)

InitScan ==
    /\ scanOptions \in ScanOptions
    /\ scanPc = "start"
    /\ scanPending = "none"
    /\ scanBrowsers = 0
    /\ customChecks = <<>>
    /\ scanFailure = "none"
    /\ performanceMetrics = "undefined"
    /\ scanResult = NoScanResult
    /\ axeViolations = <<>>
    /\ customViolations = <<>>
    /\ mergedViolations = <<>>
    /\ mergePc = "idle"
    /\ IdleParse /\ IdleScore /\ IdleFix /\ IdleForm /\ IdleCrawl /\ IdleHeadings /\ IdleRoute

ScanUnchanged ==
    UNCHANGED <<scanOptions, mergePc, parseVars, scoreVars, fixVars, formVars, crawlVars,
                headingVars, routeVars>>

\* puppeteer.launch resolves
Launch ==
    /\ scanPc = "start"
    /\ scanBrowsers' = scanBrowsers + 1
    /\ scanPc' = "page"
    /\ UNCHANGED <<scanPending, customChecks, scanFailure, performanceMetrics,
                   scanResult, axeViolations, customViolations, mergedViolations>>
    /\ ScanUnchanged

\* puppeteer.launch rejects, before the try statement: no browser exists
LaunchFails ==
    /\ scanPc = "start"
    /\ scanFailure' = "launch"
    /\ scanPc' = "threw"
    /\ UNCHANGED <<scanPending, scanBrowsers, customChecks, performanceMetrics,
                   scanResult, axeViolations, customViolations, mergedViolations>>
    /\ ScanUnchanged

\* newPage, setViewport and the coverage starts resolve
OpenPage ==
    /\ scanPc = "page"
    /\ scanPc' = "goto"
    /\ UNCHANGED <<scanPending, scanBrowsers, customChecks, scanFailure,
                   performanceMetrics, scanResult, axeViolations,
                   customViolations, mergedViolations>>
    /\ ScanUnchanged

\* one of them rejects
OpenPageFails ==
    /\ scanPc = "page"
    /\ scanFailure' = "page"
    /\ scanPending' = "threw"
    /\ scanPc' = LeaveTry("threw")
    /\ UNCHANGED <<scanBrowsers, customChecks, performanceMetrics, scanResult,
                   axeViolations, customViolations, mergedViolations>>
    /\ ScanUnchanged

\* page.goto resolves
Navigate ==
    /\ scanPc = "goto"
    /\ scanPc' = "settle"
    /\ UNCHANGED <<scanPending, scanBrowsers, customChecks, scanFailure,
                   performanceMetrics, scanResult, axeViolations,
                   customViolations, mergedViolations>>
    /\ ScanUnchanged

\* page.goto rejects: the navigation failed or passed its 30 s timeout
NavigationFails ==
    /\ scanPc = "goto"
    /\ scanFailure' = "navigation"
    /\ scanPending' = "threw"
    /\ scanPc' = LeaveTry("threw")
    /\ UNCHANGED <<scanBrowsers, customChecks, performanceMetrics, scanResult,
                   axeViolations, customViolations, mergedViolations>>
    /\ ScanUnchanged

\* waitForTimeout and the evaluate of the metadata resolve
ReadMetadata ==
    /\ scanPc = "settle"
    /\ scanPc' = "axe"
    /\ UNCHANGED <<scanPending, scanBrowsers, customChecks, scanFailure,
                   performanceMetrics, scanResult, axeViolations,
                   customViolations, mergedViolations>>
    /\ ScanUnchanged

\* one of them rejects
ReadMetadataFails ==
    /\ scanPc = "settle"
    /\ scanFailure' = "metadata"
    /\ scanPending' = "threw"
    /\ scanPc' = LeaveTry("threw")
    /\ UNCHANGED <<scanBrowsers, customChecks, performanceMetrics, scanResult,
                   axeViolations, customViolations, mergedViolations>>
    /\ ScanUnchanged

\* AxePuppeteer.analyze resolves with its violations
AxeAnalyze ==
    /\ scanPc = "axe"
    /\ \E found \in SeqsUpTo(ScanAxeUniverse, MaxScanFindings) :
          axeViolations' = WithIds("axe", found)
    /\ scanPc' = AfterAxe(scanOptions)
    /\ UNCHANGED <<scanPending, scanBrowsers, customChecks, scanFailure,
                   performanceMetrics, scanResult, customViolations,
                   mergedViolations>>
    /\ ScanUnchanged

\* AxePuppeteer.analyze rejects
AxeFails ==
    /\ scanPc = "axe"
    /\ scanFailure' = "evaluator"
    /\ scanPending' = "threw"
    /\ scanPc' = LeaveTry("threw")
    /\ UNCHANGED <<scanBrowsers, customChecks, performanceMetrics, scanResult,
                   axeViolations, customViolations, mergedViolations>>
    /\ ScanUnchanged

\* the next check of customChecks gets its value: [] for the React check of
\* a page that is not React, else what page.evaluate resolves to; after the
\* last one the arrays are spread into violations and returned
CustomCheck ==
    /\ scanPc = "custom"
    /\ LET name == customCheckNames[Len(customChecks) + 1]
       IN  \E found \in CheckOutcomes(name) :
              /\ name = "react-aria-compliance" /\ scanOptions.framework # "react"
                     => found = <<>>
              /\ customChecks' = Append(customChecks, found)
    /\ customViolations' =
          IF Len(customChecks') = Len(customCheckNames)
          THEN Spread(customChecks', 1) ELSE customViolations
    /\ scanPc' =
          IF Len(customChecks') = Len(customCheckNames)
          THEN "performance" ELSE "custom"
    /\ UNCHANGED <<scanPending, scanBrowsers, scanFailure, performanceMetrics,
                   scanResult, axeViolations, mergedViolations>>
    /\ ScanUnchanged

\* page.evaluate of the next check rejects: nothing in
\* runCustomAccessibilityChecks catches it, and nothing in scanWebsite
CustomCheckFails ==
    /\ scanPc = "custom"
    /\ LET name == customCheckNames[Len(customChecks) + 1]
       IN  name = "react-aria-compliance" => scanOptions.framework = "react"
    /\ scanFailure' = "heuristic"
    /\ scanPending' = "threw"
    /\ scanPc' = LeaveTry("threw")
    /\ UNCHANGED <<scanBrowsers, customChecks, performanceMetrics, scanResult,
                   axeViolations, customViolations, mergedViolations>>
    /\ ScanUnchanged

\* includePerformance is off: the results are merged and returned
ReturnWithoutPerformance ==
    /\ scanPc = "performance"
    /\ ~scanOptions.includePerformance
    /\ mergedViolations' = mergeViolations(axeViolations, customViolations)
    /\ scanResult' = ScanResult(mergedViolations', performanceMetrics)
    /\ scanPending' = "returned"
    /\ scanPc' = LeaveTry("returned")
    /\ UNCHANGED <<scanBrowsers, customChecks, scanFailure, performanceMetrics,
                   axeViolations, customViolations>>
    /\ ScanUnchanged

\* getPerformanceMetrics resolves with the metrics object
SamplePerformance ==
    /\ scanPc = "performance"
    /\ scanOptions.includePerformance
    /\ performanceMetrics' = "metrics"
    /\ scanPc' = "coverage"
    /\ UNCHANGED <<scanPending, scanBrowsers, customChecks, scanFailure,
                   scanResult, axeViolations, customViolations, mergedViolations>>
    /\ ScanUnchanged

\* its page.evaluate rejects: getPerformanceMetrics catches and returns null
SamplingFails ==
    /\ scanPc = "performance"
    /\ scanOptions.includePerformance
    /\ performanceMetrics' = "null"
    /\ scanFailure' = "sampling"
    /\ scanPc' = "coverage"
    /\ UNCHANGED <<scanPending, scanBrowsers, customChecks, scanResult,
                   axeViolations, customViolations, mergedViolations>>
    /\ ScanUnchanged

\* both coverage stops resolve; performanceMetrics.coverage is assigned,
\* which throws a TypeError when performanceMetrics is null; otherwise the
\* results are merged and returned
StopCoverage ==
    /\ scanPc = "coverage"
    /\ IF performanceMetrics = "null"
       THEN /\ scanPending' = "threw"
            /\ scanPc' = LeaveTry("threw")
            /\ UNCHANGED <<performanceMetrics, mergedViolations, scanResult>>
       ELSE /\ performanceMetrics' = "metrics with coverage"
            /\ mergedViolations' = mergeViolations(axeViolations, customViolations)
            /\ scanResult' = ScanResult(mergedViolations', performanceMetrics')
            /\ scanPending' = "returned"
            /\ scanPc' = LeaveTry("returned")
    /\ UNCHANGED <<scanBrowsers, customChecks, scanFailure, axeViolations,
                   customViolations>>
    /\ ScanUnchanged

\* a coverage stop rejects
StopCoverageFails ==
    /\ scanPc = "coverage"
    /\ scanFailure' = "coverage"
    /\ scanPending' = "threw"
    /\ scanPc' = LeaveTry("threw")
    /\ UNCHANGED <<scanBrowsers, customChecks, performanceMetrics, scanResult,
                   axeViolations, customViolations, mergedViolations>>
    /\ ScanUnchanged

\* the finally block: browser.close resolves, then the return or the throw
\* that left the try block completes
CloseBrowser ==
    /\ scanPc = "finally"
    /\ scanBrowsers' = scanBrowsers - 1
    /\ scanPc' = scanPending
    /\ UNCHANGED <<scanPending, customChecks, scanFailure, performanceMetrics,
                   scanResult, axeViolations, customViolations, mergedViolations>>
    /\ ScanUnchanged

NextScan ==
    \/ Launch
    \/ LaunchFails
    \/ OpenPage
    \/ OpenPageFails
    \/ Navigate
    \/ NavigationFails
    \/ ReadMetadata
    \/ ReadMetadataFails
    \/ AxeAnalyze
    \/ AxeFails
    \/ CustomCheck
    \/ CustomCheckFails
    \/ ReturnWithoutPerformance
    \/ SamplePerformance
    \/ SamplingFails
    \/ StopCoverage
    \/ StopCoverageFails
    \/ CloseBrowser

SpecScan == InitScan /\ [][NextScan]_vars

-----------------------------------------------------------------------------
(* Crawl: scanMultiplePages, one step per await; a call of scanWebsite is *)
(* its launch and then the step at which it resolves or rejects           *)

InitCrawl ==
    /\ maxPages \in 1..MaxPages
    /\ anchors \in SeqsUpTo(Hrefs, MaxAnchors)
    /\ crawlPc = "start"
    /\ crawlPending = "none"
    /\ crawlFailure = "none"
    /\ links = <<>>
    /\ crawlBrowser = "none"
    /\ urls = <<>>
    /\ urlIndex = 0
    /\ scanOk = <<>>
    /\ results = <<>>
    /\ IdleParse /\ IdleMerge /\ IdleScore /\ IdleFix /\ IdleForm /\ IdleScan /\ IdleHeadings /\ IdleRoute

CrawlUnchanged ==
    UNCHANGED <<maxPages, anchors, mergeVars, parseVars, scoreVars, fixVars,
                formVars, scanOptions, scanPc, scanPending, customChecks,
                scanFailure, performanceMetrics, scanResult, headingVars, routeVars>>

\* puppeteer.launch resolves
CrawlLaunch ==
    /\ crawlPc = "start"
    /\ crawlBrowser' = "open"
    /\ crawlPc' = "goto"
    /\ UNCHANGED <<crawlPending, crawlFailure, links, urls, urlIndex, scanOk, results>>
    /\ UNCHANGED scanBrowsers
    /\ CrawlUnchanged

\* puppeteer.launch rejects, before the try statement
CrawlLaunchFails ==
    /\ crawlPc = "start"
    /\ crawlPc' = "threw"
    /\ crawlFailure' = "launch"
    /\ UNCHANGED <<crawlPending, links, crawlBrowser, urls, urlIndex, scanOk, results>>
    /\ UNCHANGED scanBrowsers
    /\ CrawlUnchanged

\* newPage and page.goto(baseUrl) resolve
SeedLoads ==
    /\ crawlPc = "goto"
    /\ crawlPc' = "evaluate"
    /\ UNCHANGED <<crawlPending, crawlFailure, links, crawlBrowser, urls, urlIndex, scanOk, results>>
    /\ UNCHANGED scanBrowsers
    /\ CrawlUnchanged

\* newPage or page.goto(baseUrl) rejects: nothing catches, finally runs
SeedLoadFails ==
    /\ crawlPc = "goto"
    /\ crawlPending' = "threw"
    /\ crawlPc' = "finally"
    /\ crawlFailure' = "seed"
    /\ UNCHANGED <<links, crawlBrowser, urls, urlIndex, scanOk, results>>
    /\ UNCHANGED scanBrowsers
    /\ CrawlUnchanged

\* page.evaluate resolves with the links of the seed document
Discover ==
    /\ crawlPc = "evaluate"
    /\ links' = DiscoverLinks(anchors, maxPages)
    /\ crawlPc' = "close"
    /\ UNCHANGED <<crawlPending, crawlFailure, crawlBrowser, urls, urlIndex, scanOk, results>>
    /\ UNCHANGED scanBrowsers
    /\ CrawlUnchanged

\* page.evaluate rejects
DiscoverFails ==
    /\ crawlPc = "evaluate"
    /\ crawlPending' = "threw"
    /\ crawlPc' = "finally"
    /\ crawlFailure' = "discover"
    /\ UNCHANGED <<links, crawlBrowser, urls, urlIndex, scanOk, results>>
    /\ UNCHANGED scanBrowsers
    /\ CrawlUnchanged

\* browser.close resolves; urls and results are initialised and the loop
\* takes the first url, which slice leaves in place for every maxPages >= 1
CloseDiscovery ==
    /\ crawlPc = "close"
    /\ crawlBrowser' = AfterClose(crawlBrowser)
    /\ urls' = CrawlUrls(links, maxPages)
    /\ results' = <<>>
    /\ crawlPc' = "loop"
    /\ UNCHANGED <<crawlPending, crawlFailure, links, urlIndex, scanOk>>
    /\ UNCHANGED scanBrowsers
    /\ CrawlUnchanged

\* scanWebsite(url, options) is called and its puppeteer.launch resolves
PageScanLaunch ==
    /\ crawlPc = "loop"
    /\ scanBrowsers' = scanBrowsers + 1
    /\ crawlPc' = "scanning"
    /\ UNCHANGED <<crawlPending, crawlFailure, links, crawlBrowser, urls,
                   urlIndex, scanOk, results>>
    /\ CrawlUnchanged

\* scanWebsite(url, options) resolves, its finally block having closed its
\* browser: the result is pushed
PageScanResolves ==
    /\ crawlPc = "scanning"
    /\ scanBrowsers' = scanBrowsers - 1
    /\ results' = Append(results, [url |-> urls[urlIndex + 1]])
    /\ scanOk' = Append(scanOk, TRUE)
    /\ urlIndex' = urlIndex + 1
    /\ crawlPc' = AfterPage(urlIndex', urls).pc
    /\ crawlPending' = AfterPage(urlIndex', urls).pending
    /\ UNCHANGED <<crawlFailure, links, crawlBrowser, urls>>
    /\ CrawlUnchanged

\* scanWebsite(url, options) rejects, at its launch or later, its finally
\* block then having closed its browser: the catch block of the loop runs
PageScanRejects ==
    /\ crawlPc \in {"loop", "scanning"}
    /\ scanBrowsers' = IF crawlPc = "scanning" THEN scanBrowsers - 1 ELSE scanBrowsers
    /\ scanOk' = Append(scanOk, FALSE)
    /\ urlIndex' = urlIndex + 1
    /\ crawlPc' = CatchPageFailure(urlIndex', urls).pc
    /\ crawlPending' = CatchPageFailure(urlIndex', urls).pending
    /\ UNCHANGED <<crawlFailure, links, crawlBrowser, urls, results>>
    /\ CrawlUnchanged

\* the finally block: browser.close resolves, also for a browser that is
\* closed already; then the return or the throw completes
CrawlFinally ==
    /\ crawlPc = "finally"
    /\ crawlBrowser' = AfterClose(crawlBrowser)
    /\ crawlPc' = crawlPending
    /\ UNCHANGED <<crawlPending, crawlFailure, links, urls, urlIndex, scanOk, results>>
    /\ UNCHANGED scanBrowsers
    /\ CrawlUnchanged

NextCrawl ==
    \/ CrawlLaunch
    \/ CrawlLaunchFails
    \/ SeedLoads
    \/ SeedLoadFails
    \/ Discover
    \/ DiscoverFails
    \/ CloseDiscovery
    \/ PageScanLaunch
    \/ PageScanResolves
    \/ PageScanRejects
    \/ CrawlFinally

SpecCrawl == InitCrawl /\ [][NextCrawl]_vars

-----------------------------------------------------------------------------
(* Properties of Merge *)

allViolations == axeViolations \o customViolations

\* the place of a returned violation in the concatenated input
InputIndex(v) == CHOOSE i \in 1..Len(allViolations) : allViolations[i].id = v.id

\* the order the ranking is meant to impose: most severe first, unrecognized last
SeverityRank(impact) ==
    CASE impact = "critical" -> 0
      [] impact = "serious" -> 1
      [] impact = "moderate" -> 2
      [] impact = "minor" -> 3
      [] OTHER -> 4

\* C1: the array returned by mergeViolations is ordered by severity (critical,
\* serious, moderate, minor, then unrecognized impacts) and violations of equal
\* impact keep their input order.
C1_SortedBySeverity ==
    mergePc = "done" =>
        \A i, j \in 1..Len(mergedViolations) :
            i < j =>
                LET a == mergedViolations[i]
                    b == mergedViolations[j]
                IN  /\ SeverityRank(a.impact) <= SeverityRank(b.impact)
                    /\ a.impact = b.impact => InputIndex(a) < InputIndex(b)

-----------------------------------------------------------------------------
(* Properties of Score *)

BaseScores(a) ==
    <<a.legalRiskScore, a.userImpactScore, a.businessRiskScore, a.technicalComplexity>>

\* C3: analyzeViolationsWithAI returns one analysis per violation, in input
\* order, on every path: result[i] is the fallback analysis of violations[i]
\* or is made of the i-th element of the response.
C3_OneAnalysisPerViolation ==
    scorePc = "returned" =>
        /\ Len(analyses) = Len(violations)
        /\ \A i \in 1..Len(violations) :
              \/ /\ scorePath \in {"nokey", "catch"}
                 /\ analyses[i] = BasicAnalysis(violations[i])
              \/ /\ scorePath = "parsefail"
                 /\ analyses[i] = createFallbackAnalysis
              \/ /\ scorePath = "parsed"
                 /\ i <= Len(reply.text.entries)
                 /\ analyses[i] = ParseEntry(reply.text.entries[i])

\* C4: analyzeViolationsWithAI never throws: once the request has rejected,
\* timed out, answered without a text block or answered with an array that
\* holds a non-object element, the call has returned an array.
C4_NeverThrows ==
    /\ scorePc # "threw"
    /\ reply.kind # "pending" => scorePc = "returned"

\* the response array holds null and the call returned one analysis per violation
C4_Witness ==
    /\ scorePc = "returned"
    /\ reply.kind = "text"
    /\ reply.text.json = "array"
    /\ \E i \in 1..Len(reply.text.entries) : reply.text.entries[i] = NullEntry
    /\ Len(violations) > 0
    /\ Len(analyses) = Len(violations)

\* C5: every returned analysis has its four base scores within 1..10, on the
\* response path and on every fallback path, whatever the response carried.
C5_BaseScoresInRange ==
    scorePc = "returned" =>
        \A i \in 1..Len(analyses) :
            \A k \in 1..4 : BaseScores(analyses[i])[k] \in 1..10

\* a response with one element above 10 and one element below 1 was parsed
C5_Witness ==
    /\ scorePc = "returned"
    /\ scorePath = "parsed"
    /\ \E i, j \in 1..Len(analyses) :
          /\ reply.text.entries[i].kind = "object"
          /\ reply.text.entries[i].legalRiskScore # Absent
          /\ reply.text.entries[i].legalRiskScore[1] > 10
          /\ reply.text.entries[j].kind = "object"
          /\ reply.text.entries[j].technicalComplexity # Absent
          /\ reply.text.entries[j].technicalComplexity[1] < 1

\* C6: when the response text holds no parsable JSON array, one analysis per
\* violation is returned and each carries the base scores that the no-key
\* path derives from the violation's impact and description.
C6_ParseFailureUsesBasicScores ==
    (scorePc = "returned" /\ reply.kind = "text" /\ reply.text.json \in {"none", "invalid"}) =>
        /\ Len(analyses) = Len(violations)
        /\ \A i \in 1..Len(violations) :
              BaseScores(analyses[i]) = BaseScores(BasicAnalysis(violations[i]))

AsEntry(a) ==
    Entry(<<a.legalRiskScore>>, <<a.userImpactScore>>,
          <<a.businessRiskScore>>, <<a.technicalComplexity>>)

\* C7: on the fallback path (no key, or the request failed) the priorityScore
\* of each analysis is the weighted formula of calculatePriorityScore applied
\* to the analysis's own base scores.
C7_FallbackPriorityWeighted ==
    (scorePc = "returned" /\ scorePath \in {"nokey", "catch"}) =>
        \A i \in 1..Len(analyses) :
            analyses[i].priorityScore = calculatePriorityScore(AsEntry(analyses[i]))

-----------------------------------------------------------------------------
(* Properties of the priority formula *)

FiveIfMissing(x) == IF x = Absent THEN 5 ELSE x[1]

\* 0.35 l + 0.35 u + 0.20 b + 0.10 (10 - t) in hundredths
WeightedHundredths(a) ==
      35 * FiveIfMissing(a.legalRiskScore)
    + 35 * FiveIfMissing(a.userImpactScore)
    + 20 * FiveIfMissing(a.businessRiskScore)
    + 10 * (10 - FiveIfMissing(a.technicalComplexity))

\* rounded half-up to tenths
HalfUpTenths(hundredths) == (hundredths + 5) \div 10

Documented(x) == x = Absent \/ x[1] \in 1..10

\* C8: for base scores within 1..10 or missing, the priorityScore on the
\* response path is the weighted sum (a missing score counting as 5) rounded
\* half-up to one decimal; it is 8.0 for 8, 9, 7, 4; and lowering
\* technicalComplexity never lowers it.
C8_WeightedHalfUp ==
    (/\ parsePc = "done"
     /\ Documented(analysis.legalRiskScore)
     /\ Documented(analysis.userImpactScore)
     /\ Documented(analysis.businessRiskScore)
     /\ Documented(analysis.technicalComplexity)) =>
        /\ parsed.priorityScore = HalfUpTenths(WeightedHundredths(analysis))
        /\ analysis = Entry(<<8>>, <<9>>, <<7>>, <<4>>) => parsed.priorityScore = 80
        /\ \A t \in 1..10 :
              t < FiveIfMissing(analysis.technicalComplexity) =>
                  calculatePriorityScore(
                      [analysis EXCEPT !.technicalComplexity = <<t>>])
                      >= parsed.priorityScore

-----------------------------------------------------------------------------
(* Properties of the form heuristic *)

OneUnlabeledInput ==
    /\ Len(page) = 1
    /\ Len(page[1].inputs) = 1
    /\ page[1].inputs[1] = [labelling |-> "none", hidden |-> FALSE, required |-> "no"]
    /\ page[1].validation = "no-submit"

\* C9 as stated: the finding for one unlabeled input is serious, WCAG 3.3.2,
\* and fallback scoring gives it legalRiskScore 6 and userImpactScore 7.
C9_LegalRiskSix ==
    (OneUnlabeledInput /\ formPc = "handed" /\ scorePc = "returned") =>
        /\ Len(violations) = 1
        /\ violations[1].impact = "serious"
        /\ violations[1].wcagReference = "WCAG 3.3.2"
        /\ analyses[1].legalRiskScore = 6
        /\ analyses[1].userImpactScore = 7

\* C9 amended: the finding for one unlabeled input is serious, WCAG 3.3.2, and
\* fallback scoring gives it legalRiskScore 7 (its description holds the
\* keywords label and aria) and userImpactScore 7.
C9_LegalRiskSeven ==
    (OneUnlabeledInput /\ formPc = "handed" /\ scorePc = "returned") =>
        /\ Len(violations) = 1
        /\ violations[1].impact = "serious"
        /\ violations[1].wcagReference = "WCAG 3.3.2"
        /\ violations[1].description = DescFormLabel
        /\ Len(analyses) = 1
        /\ analyses[1].legalRiskScore = 7
        /\ analyses[1].userImpactScore = 7

\* the page with one unlabeled input was checked and its finding scored
C9_Witness ==
    /\ OneUnlabeledInput
    /\ formPc = "handed"
    /\ scorePc = "returned"
    /\ scorePath = "nokey"
    /\ Len(analyses) = 1

-----------------------------------------------------------------------------
(* Properties of the entry points *)

\* C10: without a key neither analyzeViolationsWithAI nor generateCodeFixes
\* calls the reasoning service; what they return comes from the fallback.
C10_NoRequestWithoutKey ==
    ~apiKey =>
        /\ scoreRequests = 0
        /\ fixRequests = 0
        /\ scorePc \in {"idle", "start", "returned"}
        /\ scorePc = "returned" => scorePath = "nokey"
        /\ fixPc \in {"idle", "start", "returned", "threw"}

\* without a key, a call with violations has returned its fallback array
C10_Witness ==
    /\ ~apiKey
    /\ scorePc = "returned"
    /\ scorePath = "nokey"
    /\ Len(analyses) > 0
    /\ scoreRequests = 0

-----------------------------------------------------------------------------
(* Properties of Crawl *)

\* the results of the urls whose scan resolved, in the order of urls
RECURSIVE Succeeded(_, _, _)
Succeeded(all, ok, k) ==
    IF k > Len(ok) THEN <<>>
    ELSE (IF ok[k] THEN <<[url |-> all[k]]>> ELSE <<>>) \o Succeeded(all, ok, k + 1)

\* no element of s occurs in it twice
Distinct(s) == \A i, j \in 1..Len(s) : s[i] = s[j] => i = j

\* C11: a page scan that fails is caught and does not abort the crawl:
\* scanMultiplePages throws only when the link discovery failed, and it
\* returns exactly the results of the urls whose scans resolved, in the
\* order of urls; with maxPages = 3, two links and the second page failing
\* it returns two results, the seed's first.
C11_FailedPagesSkipped ==
    /\ crawlPc = "threw" => crawlFailure # "none"
    /\ crawlPending = "threw" => crawlFailure # "none"
    /\ crawlPc = "returned" =>
          /\ Len(scanOk) = Len(urls)
          /\ results = Succeeded(urls, scanOk, 1)
    /\ (crawlPc = "returned" /\ maxPages = 3 /\ Len(links) = 2
            /\ scanOk = <<TRUE, FALSE, TRUE>>) =>
          /\ Len(results) = 2
          /\ results[1].url = baseUrl

\* a crawl of three pages has returned although its second page failed
C11_Witness ==
    /\ crawlPc = "returned"
    /\ maxPages = 3
    /\ Len(links) = 2
    /\ Distinct(urls)
    /\ scanOk = <<TRUE, FALSE, TRUE>>
    /\ Len(results) = 2

\* C12: scanMultiplePages returns only when the scan of the seed page
\* succeeded, and then the seed's result is results[0]; when the seed's
\* scan fails it throws.
C12_SeedFirstOrError ==
    crawlPc = "returned" =>
        /\ Len(scanOk) >= 1
        /\ scanOk[1]
        /\ Len(results) >= 1
        /\ results[1].url = baseUrl

\* C13: the urls scanned are the seed followed by same-origin links of the
\* seed page: at most maxPages of them, the seed first, no url twice, and
\* every one of the seed's origin.
C13_DistinctSameOriginUrls ==
    crawlPc \in {"loop", "finally", "returned"} /\ crawlFailure = "none" =>
        /\ Len(urls) <= maxPages
        /\ Len(urls) >= 1
        /\ urls[1] = baseUrl
        /\ Distinct(urls)
        /\ \A i \in 1..Len(urls) : Origin(urls[i]) = Origin(baseUrl)

-----------------------------------------------------------------------------
(* Properties of Scan *)

C15_HeuristicFailureTolerated ==
    scanOptions.customRules /\ scanFailure = "heuristic" =>
        /\ scanPending # "threw"
        /\ scanPc # "threw"

\* C16: with includePerformance set, a failure of the performance sampling
\* does not fail the scan: scanWebsite does not throw for it, and what it
\* returns has performanceMetrics = null.
C16_SamplingFailureTolerated ==
    scanOptions.includePerformance /\ scanFailure = "sampling" =>
        /\ scanPending # "threw"
        /\ scanPc # "threw"
        /\ scanPc = "returned" => scanResult.performanceMetrics = "null"

-----------------------------------------------------------------------------
(* Properties of GenerateFixes *)

\* the violations of the batch whose request was in flight when
\* generateCodeFixes ended
FailedBatch == (batchStart + 1)..(batchStart + batchSize)

\* generateCodeFixes ended because a request of generateBatchFixes failed
BatchCallFailed ==
    /\ apiKey
    /\ fixPc \in {"returned", "threw"}
    /\ batchStart < Len(fixViolations)
    /\ fixRequests = (batchStart \div batchSize) + 1

\* C17: when the request of one batch fails, only the violations of that
\* batch get template fixes: the result holds one fix for every violation
\* of the batches before it and of the failed batch, and every template
\* fix in it belongs to a violation of the failed batch.
C17_FallbackBatchScoped ==
    BatchCallFailed /\ fixPc = "returned" =>
        \A k \in 1..Len(allFixes) :
            allFixes[k].origin # "ai" =>
                \E i \in FailedBatch :
                    /\ i <= Len(fixViolations)
                    /\ allFixes[k].violationId = fixViolations[i].id

\* C18: generateCodeFixes never throws and returns exactly one fix per
\* violation, in the order of the violations.
C18_OneFixPerViolation ==
    /\ fixPc # "threw"
    /\ fixPc = "returned" =>
          /\ Len(allFixes) = Len(fixViolations)
          /\ \A k \in 1..Len(allFixes) :
                allFixes[k].violationId = fixViolations[k].id

\* C19: every fix that a template made has a fixedCode that is not empty.
C19_FallbackFixedCodeNonEmpty ==
    \A k \in 1..Len(allFixes) :
        allFixes[k].origin # "ai" => allFixes[k].fixedCode # ""

\* the template the priority order names for a description
TemplateByPriority(description) ==
    LET d == toLowerCase(description)
        has(word) == Includes(d, word)
    IN  CASE has("contrast") -> "contrast"
          [] ~has("contrast") /\ (has("aria") \/ has("label")) -> "aria"
          [] ~has("contrast") /\ ~has("aria") /\ ~has("label")
                /\ (has("focus") \/ has("keyboard")) -> "focus"
          [] OTHER -> "generic"

Signalling(f) ==
    {i \in 1..Len(fixViolations) :
        /\ fixViolations[i].tags.present
        /\ fixViolations[i].nodes.present
        /\ Signal(fixViolations[i], f) = "true"}

\* f is signalled by more violations than any other framework
Majority(f) ==
    /\ Signalling(f) # {}
    /\ \A n \in 1..Len(Frameworks) :
          Frameworks[n] # f =>
              Cardinality(Signalling(Frameworks[n])) < Cardinality(Signalling(f))

\* C21: the framework of the fixes is scanContext.framework when given
\* (compared without regard to case); else the framework that more
\* violations signal than any other; else 'html' when none is signalled.
C21_FrameworkByMajority ==
    ~apiKey /\ fixPc = "returned" =>
        \A k \in 1..Len(allFixes) :
            /\ fixContext.framework.present =>
                  allFixes[k].framework = toLowerCase(fixContext.framework.value)
            /\ ~fixContext.framework.present =>
                  /\ \A n \in 1..Len(Frameworks) :
                        Majority(Frameworks[n]) => allFixes[k].framework = Frameworks[n]
                  /\ (\A n \in 1..Len(Frameworks) : Signalling(Frameworks[n]) = {})
                        => allFixes[k].framework = "html"

\* C22: all fixes that one call returns carry the same framework.
C22_OneFrameworkPerCall ==
    fixPc = "returned" =>
        \A j, k \in 1..Len(allFixes) : allFixes[j].framework = allFixes[k].framework

\* the place in fixViolations of the violation a fix is tagged with; 0 if none
Owner(fix) ==
    IF \E i \in 1..Len(fixViolations) : fixViolations[i].id = fix.violationId
    THEN CHOOSE i \in 1..Len(fixViolations) : fixViolations[i].id = fix.violationId
    ELSE 0

\* C30: every fix is tagged with the id of an input violation; the fixes
\* come in the order of their violations, and the i-th fix parsed from a
\* batch's response is tagged with the i-th violation of that batch, so the
\* fixes of a batch cover a prefix of it; no fix owns a violation outside
\* the input, however many entries a response has.
C30_FixesTaggedWithOwners ==
    \A k \in 1..Len(allFixes) :
        /\ Owner(allFixes[k]) \in 1..Len(fixViolations)
        /\ k > 1 => Owner(allFixes[k - 1]) < Owner(allFixes[k])
        /\ (allFixes[k].origin = "ai" /\ (Owner(allFixes[k]) - 1) % batchSize # 0) =>
              /\ k > 1
              /\ Owner(allFixes[k - 1]) = Owner(allFixes[k]) - 1

\* a call with two batches has returned the fixes the service gave for both
C30_Witness ==
    /\ apiKey
    /\ fixPc = "returned"
    /\ Len(fixViolations) = 4
    /\ Len(allFixes) = 4
    /\ \A k \in 1..4 : allFixes[k].origin = "ai"

-----------------------------------------------------------------------------
(* Properties of Priority, continued *)

\* C27: the priorityScore of a parsed analysis is the weighted formula
\* applied to the four base scores that the analysis itself carries.
C27_PriorityFromClampedScores ==
    parsePc = "done" =>
        parsed.priorityScore =
            calculatePriorityScore(Entry(<<parsed.legalRiskScore>>,
                                         <<parsed.userImpactScore>>,
                                         <<parsed.businessRiskScore>>,
                                         <<parsed.technicalComplexity>>))

-----------------------------------------------------------------------------
(* Properties of FormScan *)

\* the visible inputs of the page that nothing labels
UnlabeledInputs ==
    {<<f, i>> \in (1..Len(page)) \X (1..MaxInputs + 1) :
        /\ i <= Len(page[f].inputs)
        /\ page[f].inputs[i].labelling = "none"
        /\ ~page[f].inputs[i].hidden}

\* C28: the merged violations hold one WCAG 3.3.2 violation for every
\* control without a label.
C28_OneViolationPerControl ==
    formPc = "merged" =>
        Cardinality({k \in 1..Len(mergedViolations) :
                        mergedViolations[k].wcagReference = "WCAG 3.3.2"})
            = Cardinality(UnlabeledInputs)

-----------------------------------------------------------------------------
(* Properties of Crawl, continued *)

\* the browsers open at the moment: that of the link discovery and those of
\* the page scans
OpenBrowsers == (IF crawlBrowser = "open" THEN 1 ELSE 0) + scanBrowsers

\* C29: during scanMultiplePages at most one browser is open; the browser
\* of the link discovery is closed before the first page scan starts, the
\* browser of a page scan is closed before the next one starts, and none is
\* open when scanMultiplePages has returned or thrown.
C29_OneBrowserAtATime ==
    /\ OpenBrowsers <= 1
    /\ crawlPc \in {"loop", "scanning"} => crawlBrowser = "closed"
    /\ crawlPc = "loop" => scanBrowsers = 0
    /\ crawlPc \in {"returned", "threw"} => OpenBrowsers = 0

\* the navigation of the discovery failed, scanMultiplePages threw and its
\* browser is closed
C29_Witness ==
    /\ crawlPc = "threw"
    /\ crawlFailure = "seed"
    /\ crawlBrowser = "closed"
    /\ scanBrowsers = 0

-----------------------------------------------------------------------------
(* Headings: the heading check of 'screen-reader-navigation' *)

MaxHeadings == 3

HeadingLevels == 1..6

\* the finding pushed for the heading at position index (from 0)
HeadingSkip(index, previousLevel, currentLevel) ==
    [id |-> "heading-skip-" \o ToString(index),
     description |-> "Heading level skipped: H" \o ToString(previousLevel)
                        \o " to H" \o ToString(currentLevel),
     impact |-> "moderate",
     wcagReference |-> "WCAG 1.3.1"]

\* the forEach over the headings from position index on, previousLevel
\* being the level of the heading before, 0 at the start
RECURSIVE HeadingWalk(_, _, _)
HeadingWalk(levels, index, previousLevel) ==
    IF index >= Len(levels) THEN <<>>
    ELSE LET currentLevel == levels[index + 1]
         IN (IF currentLevel > previousLevel + 1
               THEN <<HeadingSkip(index, previousLevel, currentLevel)>>
               ELSE <<>>)
            \o HeadingWalk(levels, index + 1, currentLevel)

\* let previousLevel = 0; headings.forEach(...)
HeadingStructure(levels) == HeadingWalk(levels, 0, 0)

InitHeadings ==
    /\ headings \in SeqsUpTo(HeadingLevels, MaxHeadings)
    /\ headingIssues = <<>>
    /\ headingPc = "loaded"
    /\ IdleParse /\ IdleMerge /\ IdleScore /\ IdleFix /\ IdleForm /\ IdleScan /\ IdleCrawl /\ IdleRoute

\* page.evaluate of the heading check
HeadingCheck ==
    /\ headingPc = "loaded"
    /\ headingIssues' = HeadingStructure(headings)
    /\ headingPc' = "checked"
    /\ UNCHANGED <<headings, mergeVars, parseVars, scoreVars, fixVars, formVars,
                   scanVars, crawlVars, routeVars>>

NextHeadings == HeadingCheck

SpecHeadings == InitHeadings /\ [][NextHeadings]_vars

\* the heading at position i (from 1) got a finding
HeadingFlagged(i) ==
    \E k \in 1..Len(headingIssues) :
        headingIssues[k].id = "heading-skip-" \o ToString(i - 1)

\* C26: once the headings are checked, a heading has a finding exactly when
\* a heading precedes it and its level exceeds the level of that heading by
\* more than one; the first heading has none.
C26_SkipsAfterPrecedingHeadingOnly ==
    headingPc = "checked" =>
        \A i \in 1..Len(headings) :
            HeadingFlagged(i) <=> (i > 1 /\ headings[i] > headings[i - 1] + 1)

-----------------------------------------------------------------------------
(* Route: POST of the scan route with detectFramework, one step per await. *)
(* The requests carry no userId, so no usage is tracked and no scan saved. *)

\* the largest options.maxPages of a request
MaxRoutePages == 2

\* a flag of the body: true, false, or not sent
Flags == {"true", "false", Undefined}

\* the bodies of the requests; "" is a url or a framework that is not sent,
\* 0 a maxPages that is not sent
Requests ==
    [url : {"", baseUrl},
     useAI : Flags,
     options : [useAI : Flags, framework : {"", "react"}, maxPages : 0..MaxRoutePages]]

\* what ScanForm posts: JSON.stringify({ url, options }), useAI being a
\* boolean of options
FromScanForm(body) == body.useAI = Undefined /\ body.options.useAI # Undefined

\* const { ..., useAI = true } = await request.json()
UseAI(body) == IF body.useAI = Undefined THEN "true" ELSE body.useAI

\* const scanOptions = { maxPages: options.maxPages || 1, ...,
\*                       framework: options.framework || 'vanilla' }
BuildScanOptions(options) ==
    [maxPages |-> IF options.maxPages = 0 THEN 1 ELSE options.maxPages,
     framework |-> IF options.framework = "" THEN "vanilla" ELSE options.framework]

\* what the document shows of each framework
DetectSignals == [{"react", "vue", "angular"} -> BOOLEAN]

\* the function evaluated in the page by detectFramework
EvaluateFramework(signals) ==
    IF signals["react"] THEN "react"
    ELSE IF signals["vue"] THEN "vue"
    ELSE IF signals["angular"] THEN "angular"
    ELSE "vanilla"

\* the checks whose findings the pages of a request may show
RouteChecks == <<"screen-reader-navigation", "form-accessibility">>

\* ScanResult.violations of one page: what mergeViolations returned
PageViolations ==
    {mergeViolations(<<>>, a \o b) :
        a \in CheckOutcomes(RouteChecks[1]), b \in CheckOutcomes(RouteChecks[2])}

\* results.flatMap(r => r.violations)
FlatMapViolations(pages) == Spread(pages, 1)

\* if (useAI && scanResult.violations.length > 0)
WantsAnalysis(body, vs) == UseAI(body) = "true" /\ Len(vs) > 0

\* the body of the response of a completed scan; each violation also
\* carries the analysis of its index, which is left out here
ScanResponse(vs, analysed, framework) ==
    [status |-> 200,
     violations |-> vs,
     hasAIPrioritization |-> analysed # "null",
     framework |-> framework]

\* the statuses of the outer catch block
ErrorStatuses == {500, 408, 400}

InitRoute ==
    /\ request \in Requests
    /\ routePc = "start"
    /\ routeOptions = NoRouteOptions
    /\ detectPc = "idle"
    /\ detectPending = "none"
    /\ detectBrowser = "none"
    /\ detected = ""
    /\ pageViolations = <<>>
    /\ routeViolations = <<>>
    /\ aiCalls = 0
    /\ aiAnalysis = "null"
    /\ response = NoResponse
    /\ IdleParse /\ IdleMerge /\ IdleScore /\ IdleFix /\ IdleForm /\ IdleScan /\ IdleCrawl /\ IdleHeadings

RouteUnchanged ==
    UNCHANGED <<request, mergeVars, parseVars, scoreVars, fixVars, formVars,
                scanVars, crawlVars, headingVars>>

\* request.json() resolves; the url is missing: 400
RejectUrl ==
    /\ routePc = "start"
    /\ request.url = ""
    /\ response' = [status |-> 400]
    /\ routePc' = "responded"
    /\ UNCHANGED <<routeOptions, detectPc, detectPending, detectBrowser, detected,
                   pageViolations, routeViolations, aiCalls, aiAnalysis>>
    /\ RouteUnchanged

\* request.json() resolves; scanOptions is built and, no framework being
\* sent, detectFramework is called
ReadRequest ==
    /\ routePc = "start"
    /\ request.url # ""
    /\ routeOptions' = BuildScanOptions(request.options)
    /\ IF request.options.framework = ""
         THEN routePc' = "detect" /\ detectPc' = "start"
         ELSE routePc' = "scan" /\ detectPc' = detectPc
    /\ UNCHANGED <<detectPending, detectBrowser, detected, pageViolations,
                   routeViolations, aiCalls, aiAnalysis, response>>
    /\ RouteUnchanged

\* detectFramework: puppeteer.launch resolves
DetectLaunch ==
    /\ detectPc = "start"
    /\ detectBrowser' = "open"
    /\ detectPc' = "launched"
    /\ UNCHANGED <<routePc, routeOptions, detectPending, detected, pageViolations,
                   routeViolations, aiCalls, aiAnalysis, response>>
    /\ RouteUnchanged

\* detectFramework: puppeteer.launch rejects, before the try block
DetectLaunchFails ==
    /\ detectPc = "start"
    /\ detectPc' = "threw"
    /\ UNCHANGED <<routePc, routeOptions, detectPending, detectBrowser, detected,
                   pageViolations, routeViolations, aiCalls, aiAnalysis, response>>
    /\ RouteUnchanged

\* detectFramework: newPage, goto and evaluate resolve; return framework
DetectEvaluates ==
    /\ detectPc = "launched"
    /\ \E signals \in DetectSignals : detected' = EvaluateFramework(signals)
    /\ detectPending' = "returned"
    /\ detectPc' = "finally"
    /\ UNCHANGED <<routePc, routeOptions, detectBrowser, pageViolations,
                   routeViolations, aiCalls, aiAnalysis, response>>
    /\ RouteUnchanged

\* detectFramework: page.goto rejects; there is no catch block
DetectNavigationFails ==
    /\ detectPc = "launched"
    /\ detectPending' = "threw"
    /\ detectPc' = "finally"
    /\ UNCHANGED <<routePc, routeOptions, detectBrowser, detected, pageViolations,
                   routeViolations, aiCalls, aiAnalysis, response>>
    /\ RouteUnchanged

\* detectFramework: finally { await browser.close() }, then the return or
\* the throw completes
DetectFinally ==
    /\ detectPc = "finally"
    /\ detectBrowser' = "closed"
    /\ detectPc' = detectPending
    /\ UNCHANGED <<routePc, routeOptions, detectPending, detected, pageViolations,
                   routeViolations, aiCalls, aiAnalysis, response>>
    /\ RouteUnchanged

\* scanOptions.framework = await detectFramework(formattedUrl)
DetectionResolves ==
    /\ routePc = "detect"
    /\ detectPc = "returned"
    /\ routeOptions' = [routeOptions EXCEPT !.framework = detected]
    /\ routePc' = "scan"
    /\ UNCHANGED <<detectPc, detectPending, detectBrowser, detected, pageViolations,
                   routeViolations, aiCalls, aiAnalysis, response>>
    /\ RouteUnchanged

\* catch (error) { scanOptions.framework = 'vanilla' }
DetectionRejects ==
    /\ routePc = "detect"
    /\ detectPc = "threw"
    /\ routeOptions' = [routeOptions EXCEPT !.framework = "vanilla"]
    /\ routePc' = "scan"
    /\ UNCHANGED <<detectPc, detectPending, detectBrowser, detected, pageViolations,
                   routeViolations, aiCalls, aiAnalysis, response>>
    /\ RouteUnchanged

\* scanMultiplePages resolves with the results of at most maxPages pages;
\* their violations are concatenated, then the analysis is called for or
\* the response is sent
MultiPageScanResolves ==
    /\ routePc = "scan"
    /\ routeOptions.maxPages > 1
    /\ pageViolations' \in SeqsUpTo(PageViolations, routeOptions.maxPages)
    /\ routeViolations' = FlatMapViolations(pageViolations')
    /\ IF WantsAnalysis(request, routeViolations')
         THEN /\ aiCalls' = aiCalls + 1
              /\ routePc' = "scoring"
              /\ response' = response
         ELSE /\ aiCalls' = aiCalls
              /\ routePc' = "responded"
              /\ response' = ScanResponse(routeViolations', aiAnalysis, routeOptions.framework)
    /\ UNCHANGED <<routeOptions, detectPc, detectPending, detectBrowser, detected, aiAnalysis>>
    /\ RouteUnchanged

\* scanWebsite resolves; then the analysis is called for or the response
\* is sent
SinglePageScanResolves ==
    /\ routePc = "scan"
    /\ ~(routeOptions.maxPages > 1)
    /\ \E vs \in PageViolations : pageViolations' = <<vs>>
    /\ routeViolations' = pageViolations'[1]
    /\ IF WantsAnalysis(request, routeViolations')
         THEN /\ aiCalls' = aiCalls + 1
              /\ routePc' = "scoring"
              /\ response' = response
         ELSE /\ aiCalls' = aiCalls
              /\ routePc' = "responded"
              /\ response' = ScanResponse(routeViolations', aiAnalysis, routeOptions.framework)
    /\ UNCHANGED <<routeOptions, detectPc, detectPending, detectBrowser, detected, aiAnalysis>>
    /\ RouteUnchanged

\* scanMultiplePages or scanWebsite rejects: the outer catch block answers
ScanRejects ==
    /\ routePc = "scan"
    /\ \E status \in ErrorStatuses : response' = [status |-> status]
    /\ routePc' = "responded"
    /\ UNCHANGED <<routeOptions, detectPc, detectPending, detectBrowser, detected,
                   pageViolations, routeViolations, aiCalls, aiAnalysis>>
    /\ RouteUnchanged

\* analyzeViolationsWithAI resolves
AnalysisResolves ==
    /\ routePc = "scoring"
    /\ aiAnalysis' = "array"
    /\ response' = ScanResponse(routeViolations, aiAnalysis', routeOptions.framework)
    /\ routePc' = "responded"
    /\ UNCHANGED <<routeOptions, detectPc, detectPending, detectBrowser, detected,
                   pageViolations, routeViolations, aiCalls>>
    /\ RouteUnchanged

\* analyzeViolationsWithAI rejects: caught, the scan goes on without
AnalysisRejects ==
    /\ routePc = "scoring"
    /\ response' = ScanResponse(routeViolations, aiAnalysis, routeOptions.framework)
    /\ routePc' = "responded"
    /\ UNCHANGED <<routeOptions, detectPc, detectPending, detectBrowser, detected,
                   pageViolations, routeViolations, aiCalls, aiAnalysis>>
    /\ RouteUnchanged

NextRoute ==
    \/ RejectUrl
    \/ ReadRequest
    \/ DetectLaunch
    \/ DetectLaunchFails
    \/ DetectEvaluates
    \/ DetectNavigationFails
    \/ DetectFinally
    \/ DetectionResolves
    \/ DetectionRejects
    \/ MultiPageScanResolves
    \/ SinglePageScanResolves
    \/ ScanRejects
    \/ AnalysisResolves
    \/ AnalysisRejects

SpecRoute == InitRoute /\ [][NextRoute]_vars

-----------------------------------------------------------------------------
(* Properties of the route *)

\* C23: the violations of the response of a multi-page scan, the
\* concatenation of the violations of its pages, hold no two violations
\* with the same description and wcagReference.
C23_AggregateHasDistinctKeys ==
    (routePc = "responded" /\ response.status = 200 /\ routeOptions.maxPages > 1) =>
        \A i, j \in 1..Len(response.violations) :
            (/\ response.violations[i].description = response.violations[j].description
             /\ response.violations[i].wcagReference = response.violations[j].wcagReference)
                => i = j

\* C24: detectFramework never throws, and when the navigation fails it
\* returns 'vanilla'.
C24_DetectNeverThrows ==
    /\ detectPc # "threw"
    /\ (detectPc = "returned" /\ detectPending = "threw") => detected = "vanilla"

\* C25: for a request of the scan form with options.useAI = false,
\* analyzeViolationsWithAI is never called and the response of the scan
\* has hasAIPrioritization = false.
C25_NoAnalysisWhenSwitchedOff ==
    (FromScanForm(request) /\ request.options.useAI = "false") =>
        /\ aiCalls = 0
        /\ (routePc = "responded" /\ response.status = 200) =>
               ~response.hasAIPrioritization

====
